---- MODULE Spec2Model ----
(***************************************************************************)
(* Model of the raw-stream-to-frame-sequence pipeline of the VGA sphere    *)
(* ray marcher: convert_raw_to_frames and run_full_simulation (run.py,     *)
(* run_verilator.py, run_verilog.py), the capture harnesses                *)
(* (simulate_vga.py, the Verilog testbench of run.py) and the frame loop   *)
(* of scripts/sphere_raymarcher.py.                                        *)
(*                                                                         *)
(* A file is a record whose state is "absent", "partial" (opened for       *)
(* writing and not completely written) or "complete".                      *)
(***************************************************************************)
EXTENDS Integers, Sequences, FiniteSets, TLC

\* ------------------------------------------------------------------ bounds
\* Largest display width and height of the decoder specification (the
\* program's H_DISPLAY and V_DISPLAY are 640 and 480).
MaxWidth == 2
MaxHeight == 2
\* Longest raw stream handed to the decoder specification.
MaxDecodeLen == 25
\* Display size of the pipeline specification.
PipeWidth == 1
PipeHeight == 1
\* The simulator leaves 0..MaxRawFrames complete frames in vga_output.raw.
MaxRawFrames == 2
\* First byte values 0..MaxSeed of the raw streams.
MaxSeed == 1
\* Runs of run_full_simulation in one behaviour.
MaxRuns == 2
\* datetime.now() returns one of the seconds 0..MaxTime.
MaxTime == 1
\* Blanking columns and rows of the raster (the program's are 160 and 45).
HBlank == 1
VBlank == 1
\* Raster frames the testbench runs for (NUM_FRAMES).
MaxRasterFrames == 3
\* The --frames argument of scripts/sphere_raymarcher.py.
MaxFrameArg == 10001
\* the largest step budget ray_march is called with
MaxMarchSteps == 4
\* the largest --frames of the orbit loop
MaxOrbitFrames == 15
\* the largest num_frames run_simulation is called with
MaxSimFrames == 2
\* render_frame: the frame sizes and --frames of the small renderings
MaxRenderWidth == 4
MaxRenderHeight == 3
MaxRenderFrames == 4
\* normalize: the components of its small arguments, in fixed-point units
MaxNormUnits == 2

\* ------------------------------------------------------- program constants
PadWidth == 4
GifDuration == 50
GifLoop == 0
BytesPerPixel == 3
\* Lengths of the ray marcher are fixed-point numbers in units of 1/Scale.
Scale == 4000
\* SPHERE_RADIUS = 1.5
SPHERE_RADIUS == 6000
\* the hit threshold 0.001 of ray_march
HIT_EPSILON == 4
\* 2 * math.pi
TWO_PI == 25133
\* CAMERA_DISTANCE = 4.0
CAMERA_DISTANCE == 16000
\* the defaults max_steps=64 and max_dist=20.0 of ray_march
DefaultMaxSteps == 64
DefaultMaxDist == 80000
\* normalize compares the length with 0.0001 = 1 / ThresholdDen
ThresholdDen == 10000

Timestamps == 0..MaxTime
Categories == {"sphere_verilog", "sphere_floor"}
SimTypes == {"sphere", "floor", "other"}

Min(a, b) == IF a < b THEN a ELSE b

\* The raw streams of the model: len bytes counting up from seed, so that
\* every byte of a stream shorter than 256 bytes differs from every other
\* and a frame cut at the wrong offset never equals the right one.
Ramp(seed, len) == [j \in 1..len |-> (seed + j - 1) % 256]

\* ----------------------------------------------------------- pure helpers
\* Python slice data[start:end] of a bytes object (0-based, clipped).
Slice(data, start, end) ==
    IF start >= Min(end, Len(data)) THEN <<>>
    ELSE SubSeq(data, start + 1, Min(end, Len(data)))

\* PIL Image.frombytes('RGB', (w, h), bs): rows of w pixels of 3 bytes.
\* The caller checks FromBytesFits first: PIL raises ValueError otherwise.
FromBytesFits(w, h, bs) == Len(bs) = w * h * BytesPerPixel

FromBytes(w, h, bs) ==
    [size |-> <<w, h>>,
     px |-> [y \in 0..(h - 1) |->
               [x \in 0..(w - 1) |->
                  <<bs[BytesPerPixel * (y * w + x) + 1],
                    bs[BytesPerPixel * (y * w + x) + 2],
                    bs[BytesPerPixel * (y * w + x) + 3]>>]]]

\* Image.tobytes(): the row-major R,G,B bytes of an image.
RECURSIVE RowBytes(_, _, _)
RowBytes(row, x, w) ==
    IF x >= w THEN <<>> ELSE row[x] \o RowBytes(row, x + 1, w)

RECURSIVE RowsBytes(_, _)
RowsBytes(img, y) ==
    IF y >= img.size[2] THEN <<>>
    ELSE RowBytes(img.px[y], 0, img.size[1]) \o RowsBytes(img, y + 1)

ToBytes(img) == RowsBytes(img, 0)

\* Decimal digits of a natural number, most significant first.
RECURSIVE Digits(_)
Digits(n) == IF n < 10 THEN <<n>> ELSE Append(Digits(n \div 10), n % 10)

RECURSIVE ZeroPad(_, _)
ZeroPad(ds, w) == IF Len(ds) >= w THEN ds ELSE ZeroPad(<<0>> \o ds, w)

\* f'{i:04d}': at least PadWidth digits, zero-filled on the left.
Fmt04dNoPad(i) == Digits(i)
Fmt04d(i) == ZeroPad(Digits(i), PadWidth)

\* f'frame_{i:04d}.png': the digits stand for the whole name, whose prefix
\* "frame_" and suffix ".png" are the same for every frame.
FrameFileName(i) == Fmt04d(i)

frame_size_of(w, h) == w * h * BytesPerPixel

\* len(data) // frame_size
ActualFramesCeil(data, fsz) == (Len(data) + fsz - 1) \div fsz
ActualFrames(data, fsz) == Len(data) \div fsz

\* frame_data = data[i*frame_size : i*frame_size + frame_size]
FrameDataShifted(data, i, fsz) == Slice(data, i * fsz + 1, i * fsz + 1 + fsz)
FrameData(data, i, fsz) == Slice(data, i * fsz, i * fsz + fsz)

\* ------------------------------------------------------------ file values
NoImage == [size |-> <<0, 0>>, px |-> <<>>]
PartialImageFile == [state |-> "partial", img |-> NoImage]
ImageFile(img) == [state |-> "complete", img |-> img]

AbsentGif == [state |-> "absent", frames |-> <<>>, duration |-> 0, loop |-> 0]
PartialGif == [state |-> "partial", frames |-> <<>>, duration |-> 0, loop |-> 0]

\* images[0].save(gif_path, save_all=True, append_images=images[1:],
\*                duration=50, loop=0)
GifOfFirstOnly(images) ==
    [state |-> "complete", frames |-> <<images[1]>>,
     duration |-> GifDuration, loop |-> GifLoop]
GifOf(images) ==
    [state |-> "complete", frames |-> <<images[1]>> \o Tail(images),
     duration |-> GifDuration, loop |-> GifLoop]

AbsentRaw == [exists |-> FALSE, bytes |-> <<>>]
RawFile(bs) == [exists |-> TRUE, bytes |-> bs]

\* What a simulator that ends with return code 0 leaves in vga_output.raw:
\* the testbench writes whole frames (streams with a tail are the subject of
\* the decoder specification).
RawLengths(fsz) == {n * fsz : n \in 0..MaxRawFrames}
RawInputs(fsz) == {RawFile(Ramp(0, l)) : l \in RawLengths(fsz)}

\* The value convert_raw_to_frames returns: None, or (gif_path, actual_frames).
RetUnset == [kind |-> "unset", gif_path |-> <<>>, frames |-> 0]
RetNone == [kind |-> "None", gif_path |-> <<>>, frames |-> 0]
RetTuple(p, n) == [kind |-> "tuple", gif_path |-> p, frames |-> n]

\* os.path.join(gifs_dir, f'{output_name}_{timestamp}.gif')
GifPath(name, ts) == <<"gifs", name, ts>>

\* Python truth value of a str: non-empty.
Truthy(str) == Len(str) > 0

\* ------------------------------------------------------------------ state
VARIABLES
    H_DISPLAY, V_DISPLAY,   \* the display size
    pc,                     \* the place run_full_simulation is at
    runs,                   \* calls of run_full_simulation so far
    output_name,            \* the category of the current run
    raw,                    \* build/vga_output.raw
    timestamp,              \* timestamp of the current convert_raw_to_frames
    data,                   \* the bytes read from the raw file
    decoded,                \* TRUE once data has been read in this run
    actual_frames,
    images,
    ret,                    \* what convert_raw_to_frames returned
    result,                 \* what run_full_simulation returned
    exc,                    \* the exception that escaped, "" when none
    out,                    \* the kinds of message printed by this run
    io_fault,               \* TRUE once a file operation of this run failed
    frame_dirs,             \* output/frames/<name>_<ts> directories
    frame_files,            \* output/frames/<name>_<ts>/frame_NNNN.png
    gif_files,              \* output/gifs/<name>_<ts>.gif
    latest_gif,             \* output/gifs/<name>_latest.gif, per category
    viewer,                 \* output/index.html exists
    hist,                   \* one record per finished run (history variable)
    \* the capture harnesses, fed the same samples
    seed,                   \* first sample value of the design under test
    clocks,                 \* pixel clocks so far
    h_count, v_count,       \* VGAFrameCapture counters
    frame_count,            \* VGAFrameCapture.frame_count
    pixels, current_line,   \* VGAFrameCapture buffers
    capture_files,          \* VGAFrameCapture output_dir, by file name
    capture_out,            \* kinds of message VGAFrameCapture printed
    tb_h_count, tb_v_count, \* the testbench's counters
    tb_frame_count,
    pixel_file,             \* the bytes the testbench wrote to vga_output.raw
    cpp_h_count, cpp_v_count, \* the C++ testbench's counters
    cpp_frame_count,
    frame_buffer,           \* the C++ testbench's frame_buffer
    outfile,                \* the bytes the C++ testbench wrote to vga_output.raw
    cocotb_h, cocotb_v,     \* the cocotb test's loop variables h and v
    cocotb_frame_num,       \* the cocotb test's loop variable frame_num
    cocotb_pixels,          \* the cocotb test's list pixels
    cocotb_files,           \* the frame files the cocotb test saved
    \* the frame loop of scripts/sphere_raymarcher.py
    args_frames,            \* --frames
    frame,                  \* the loop variable
    filename,               \* the file name of the frame saved last
    saved_frame,            \* the index of the frame that file holds
    prev_filename,          \* the file name of the frame saved before it
    angle,                  \* the camera angle of the frame rendered last
    render_calls,           \* the calls of render_frame made so far
    \* a call of ray_march
    march_pc,               \* "idle", "loop" or "returned"
    ray_origin, ray_dir,    \* the arguments
    max_steps, max_dist,
    march_t,                \* the local t
    march_steps,            \* the passes of the loop made so far
    sdf_evals,              \* the calls of sphere_sdf made so far
    march_ret,              \* the value returned: (hit, t, p)
    \* a call of render_frame
    WIDTH, HEIGHT,          \* the screen dimensions
    rf_pc,                  \* "idle", "loop" or "returned"
    rf_y,                   \* the loop variable y
    rf_pixels,              \* the list pixels
    rf_log,                 \* per pixel appended: x, y and hit
    rf_frames,              \* the frames returned so far, with their logs
    \* a call of normalize
    norm_pc,                \* "idle" or "returned"
    norm_v,                 \* the argument
    norm_ret,               \* the value returned
    \* a call of run_simulation, its monitor thread and the simulator
    rs_pc,                  \* where run_simulation is
    rs_num_frames,          \* the argument num_frames
    rs_pending,             \* the return value or exception on its way out
    rs_result,              \* how run_simulation ended
    cwd,                    \* the working directory of the process
    stop_event,             \* threading.Event: is it set?
    mon_pc,                 \* where monitor_progress is
    progress,               \* the frame counts monitor_progress printed
    vvp,                    \* the simulator: "none", "running" or "exited"
    returncode,             \* its return code
    raw_frames              \* the frames it has written to vga_output.raw

configVars == <<H_DISPLAY, V_DISPLAY>>
localVars == <<output_name, timestamp, data, decoded, actual_frames, images,
               ret, out, io_fault>>
diskVars == <<frame_dirs, frame_files, gif_files, latest_gif, viewer>>
pipeVars == <<pc, runs, raw, result, exc, hist, localVars, diskVars>>

rasterVars == <<seed, clocks, h_count, v_count, frame_count, pixels,
                current_line, capture_files, capture_out, tb_h_count,
                tb_v_count, tb_frame_count, pixel_file, cpp_h_count,
                cpp_v_count, cpp_frame_count, frame_buffer, outfile,
                cocotb_h, cocotb_v, cocotb_frame_num, cocotb_pixels,
                cocotb_files>>
marchVars == <<march_pc, ray_origin, ray_dir, max_steps, max_dist, march_t,
               march_steps, sdf_evals, march_ret>>
simVars == <<rs_pc, rs_num_frames, rs_pending, rs_result, cwd, stop_event,
             mon_pc, progress, vvp, returncode, raw_frames>>
renderVars == <<WIDTH, HEIGHT, rf_pc, rf_y, rf_pixels, rf_log,
                rf_frames, norm_pc, norm_v, norm_ret>>
loopVars == <<args_frames, frame, filename, saved_frame, prev_filename,
              angle, render_calls, marchVars, renderVars>>

frame_size == frame_size_of(H_DISPLAY, V_DISPLAY)

\* datetime.now().strftime('%Y%m%d_%H%M%S'): the local wall clock to the
\* second, which can show a second it has shown to an earlier run (a clock
\* set back, the repeated hour at the end of daylight saving time) or a new
\* one.  The program uses a timestamp only as part of a name, so the seconds
\* are numbered in the order of their first use: a run gets a second some
\* earlier run got, or the next unused number.
UsedTimestamps == {d[2] : d \in frame_dirs}
Now == {t \in Timestamps : t <= Cardinality(UsedTimestamps)}

\* The files of directory output/frames/<name>_<ts>, by file name.
DirFiles(ff, name, ts) ==
    [f \in {p[3] : p \in {q \in DOMAIN ff : q[1] = name /\ q[2] = ts}}
       |-> ff[<<name, ts, f>>]]

GifAt(gf, name, ts) ==
    IF <<name, ts>> \in DOMAIN gf THEN gf[<<name, ts>>] ELSE AbsentGif

\* The record of a run that ends with the disk as given.
RunRecord(res, fault, ff, gf) ==
    [name |-> output_name, stamped |-> decoded, ts |-> timestamp,
     n |-> actual_frames, images |-> images, result |-> res,
     fault |-> fault,
     files |-> IF decoded THEN DirFiles(ff, output_name, timestamp) ELSE <<>>,
     gif |-> IF decoded THEN GifAt(gf, output_name, timestamp) ELSE AbsentGif]

\* ----------------------------------------------------- run_full_simulation
\* sim_type -> output_name, the if/elif chain at the head of
\* run_full_simulation.
OutputName(sim_type) ==
    CASE sim_type = "sphere" -> "sphere_verilog"
      [] sim_type = "floor" -> "sphere_floor"
      [] sim_type = "coin" -> "mario_coin"
      [] OTHER -> "sphere_floor"

\* run_full_simulation returns res.
Return(res, fault, ff, gf) ==
    /\ pc' = "idle"
    /\ result' = res
    /\ exc' = ""
    /\ hist' = Append(hist, RunRecord(res, fault, ff, gf))

\* The exception e escapes run_full_simulation.
Raise(e, fault, ff, gf) ==
    /\ pc' = "idle"
    /\ result' = "raised"
    /\ exc' = e
    /\ hist' = Append(hist, RunRecord("raised", fault, ff, gf))

\* The head of run_full_simulation and create_testbench, which removes the
\* raw file of the run before.
StartRun ==
    /\ pc = "idle"
    /\ runs < MaxRuns
    /\ \E sim_type \in SimTypes : output_name' = OutputName(sim_type)
    /\ runs' = runs + 1
    /\ raw' = AbsentRaw
    /\ pc' = "build"
    /\ result' = "running"
    /\ exc' = ""
    /\ timestamp' = 0
    /\ data' = <<>>
    /\ decoded' = FALSE
    /\ actual_frames' = 0
    /\ images' = <<>>
    /\ ret' = RetUnset
    /\ out' = {}
    /\ io_fault' = FALSE
    /\ UNCHANGED <<hist, configVars, diskVars>>

\* build_simulation: the compiler's return code decides, when the compiler
\* can be started; subprocess.run raises when it cannot.
BuildSimulation ==
    /\ pc = "build"
    /\ \/ /\ pc' = "sim"
          /\ UNCHANGED <<result, exc, hist>>
       \/ Return("False", io_fault, frame_files, gif_files)
       \/ Raise("FileNotFoundError", io_fault, frame_files, gif_files)
    /\ UNCHANGED <<runs, raw, configVars, localVars, diskVars>>

\* run_simulation: the simulator writes the raw file and returns.
RunSimulation ==
    /\ pc = "sim"
    /\ \/ /\ raw' \in RawInputs(frame_size) \cup {AbsentRaw}
          /\ pc' = "convert"
          /\ UNCHANGED <<result, exc, hist>>
       \/ /\ Return("False", io_fault, frame_files, gif_files)
          /\ UNCHANGED raw
       \/ /\ Raise("FileNotFoundError", io_fault, frame_files, gif_files)
          /\ UNCHANGED raw
    /\ UNCHANGED <<runs, configVars, localVars, diskVars>>

\* --------------------------------------------------- convert_raw_to_frames
\* return gif_path, actual_frames
ConvertReturn ==
    /\ ret' = RetTuple(GifPath(output_name, timestamp), actual_frames)
    /\ pc' = "unpack"

\* The Pillow import, the raw file check, the timestamp, makedirs and the
\* read of the raw file.
ConvertBegin ==
    /\ pc = "convert"
    /\ \/ /\ ret' = RetNone
          /\ out' = out \cup {"pillow_missing"}
          /\ pc' = "unpack"
          /\ UNCHANGED <<timestamp, data, decoded, actual_frames, frame_dirs>>
       \/ /\ ~raw.exists
          /\ ret' = RetNone
          /\ out' = out \cup {"raw_missing"}
          /\ pc' = "unpack"
          /\ UNCHANGED <<timestamp, data, decoded, actual_frames, frame_dirs>>
       \/ /\ raw.exists
          /\ \E t \in Now :
                /\ timestamp' = t
                /\ frame_dirs' = frame_dirs \cup {<<output_name, t>>}
          /\ data' = raw.bytes
          /\ decoded' = TRUE
          /\ actual_frames' = ActualFrames(raw.bytes, frame_size)
          /\ out' = out \cup {"found_frames"}
          /\ pc' = "save_frames"
          /\ UNCHANGED ret
    /\ UNCHANGED <<runs, raw, result, exc, hist, configVars, output_name,
                   images, io_fault, frame_files, gif_files, latest_gif,
                   viewer>>

\* One pass of the loop over range(actual_frames): slice, Image.frombytes,
\* img.save, images.append.
SaveFrame ==
    /\ pc = "save_frames"
    /\ Len(images) < actual_frames
    /\ LET i == Len(images)
           frame_data == FrameData(data, i, frame_size)
           path == <<output_name, timestamp, FrameFileName(i)>>
           img == FromBytes(H_DISPLAY, V_DISPLAY, frame_data)
       IN  IF ~FromBytesFits(H_DISPLAY, V_DISPLAY, frame_data)
           THEN /\ Raise("ValueError", io_fault, frame_files, gif_files)
                /\ UNCHANGED <<frame_files, images, out, io_fault>>
           ELSE \/ /\ frame_files' = (path :> ImageFile(img)) @@ frame_files
                   /\ images' = Append(images, img)
                   /\ out' = out \cup {"saved_frame"}
                   /\ UNCHANGED <<pc, result, exc, hist, io_fault>>
                \/ /\ frame_files' = (path :> PartialImageFile) @@ frame_files
                   /\ io_fault' = TRUE
                   /\ Raise("OSError", TRUE, frame_files', gif_files)
                   /\ UNCHANGED <<images, out>>
    /\ UNCHANGED <<runs, raw, configVars, output_name, timestamp, data, decoded,
                   actual_frames, ret, frame_dirs, gif_files, latest_gif,
                   viewer>>

\* After the loop: the animated GIF of the run, when there is a frame.
SaveGif ==
    /\ pc = "save_frames"
    /\ Len(images) = actual_frames
    /\ IF Len(images) = 0
       THEN /\ pc' = "latest"
            /\ UNCHANGED <<gif_files, out, io_fault, result, exc, hist>>
       ELSE \/ /\ gif_files' =
                     (<<output_name, timestamp>> :> GifOf(images)) @@ gif_files
               /\ out' = out \cup {"created_gif"}
               /\ pc' = "latest"
               /\ UNCHANGED <<io_fault, result, exc, hist>>
            \/ /\ gif_files' =
                     (<<output_name, timestamp>> :> PartialGif) @@ gif_files
               /\ io_fault' = TRUE
               /\ Raise("OSError", TRUE, frame_files, gif_files')
               /\ UNCHANGED out
    /\ UNCHANGED <<runs, raw, configVars, output_name, timestamp, data, decoded,
                   actual_frames, images, ret, frame_dirs, frame_files,
                   latest_gif, viewer>>

\* LatestRemove with the bug of leaving an existing latest copy alone.
LatestRemoveKeepsOld ==
    /\ pc = "latest"
    /\ IF latest_gif[output_name].state # "absent"
       THEN /\ ConvertReturn
            /\ out' = out \cup {"updated_latest"}
       ELSE /\ pc' = "latest_copy"
            /\ UNCHANGED <<ret, out>>
    /\ UNCHANGED <<runs, raw, result, exc, hist, configVars, output_name,
                   timestamp, data, decoded, actual_frames, images, io_fault,
                   diskVars>>

\* if os.path.exists(latest_gif): os.remove(latest_gif)
LatestRemove ==
    /\ pc = "latest"
    /\ IF latest_gif[output_name].state # "absent"
       THEN \/ /\ latest_gif' = [latest_gif EXCEPT ![output_name] = AbsentGif]
               /\ pc' = "latest_copy"
               /\ UNCHANGED <<ret, out, io_fault>>
            \/ /\ out' = out \cup {"warn_latest"}
               /\ io_fault' = TRUE
               /\ ConvertReturn
               /\ UNCHANGED latest_gif
       ELSE /\ pc' = "latest_copy"
            /\ UNCHANGED <<latest_gif, ret, out, io_fault>>
    /\ UNCHANGED <<runs, raw, result, exc, hist, configVars, output_name,
                   timestamp, data, decoded, actual_frames, images, frame_dirs,
                   frame_files, gif_files, viewer>>

\* shutil.copy(gif_path, latest_gif), first half: open the source and create
\* the destination.
LatestCopyOpen ==
    /\ pc = "latest_copy"
    /\ IF GifAt(gif_files, output_name, timestamp).state = "absent"
       THEN /\ out' = out \cup {"warn_latest"}
            /\ ConvertReturn
            /\ UNCHANGED <<latest_gif, io_fault>>
       ELSE \/ /\ latest_gif' = [latest_gif EXCEPT ![output_name] = PartialGif]
               /\ pc' = "latest_write"
               /\ UNCHANGED <<ret, out, io_fault>>
            \/ /\ out' = out \cup {"warn_latest"}
               /\ io_fault' = TRUE
               /\ ConvertReturn
               /\ UNCHANGED latest_gif
    /\ UNCHANGED <<runs, raw, result, exc, hist, configVars, output_name,
                   timestamp, data, decoded, actual_frames, images, frame_dirs,
                   frame_files, gif_files, viewer>>

\* LatestCopyWrite to one latest file for all categories.
LatestCopyWriteShared ==
    /\ pc = "latest_write"
    /\ \/ /\ latest_gif' = [c \in Categories |->
                              GifAt(gif_files, output_name, timestamp)]
          /\ out' = out \cup {"updated_latest"}
          /\ UNCHANGED io_fault
       \/ /\ out' = out \cup {"warn_latest"}
          /\ io_fault' = TRUE
          /\ UNCHANGED latest_gif
    /\ ConvertReturn
    /\ UNCHANGED <<runs, raw, result, exc, hist, configVars, output_name,
                   timestamp, data, decoded, actual_frames, images, frame_dirs,
                   frame_files, gif_files, viewer>>

\* shutil.copy, second half: the bytes of the source reach the destination.
LatestCopyWrite ==
    /\ pc = "latest_write"
    /\ \/ /\ latest_gif' = [latest_gif EXCEPT
                 ![output_name] = GifAt(gif_files, output_name, timestamp)]
          /\ out' = out \cup {"updated_latest"}
          /\ UNCHANGED io_fault
       \/ /\ out' = out \cup {"warn_latest"}
          /\ io_fault' = TRUE
          /\ UNCHANGED latest_gif
    /\ ConvertReturn
    /\ UNCHANGED <<runs, raw, result, exc, hist, configVars, output_name,
                   timestamp, data, decoded, actual_frames, images, frame_dirs,
                   frame_files, gif_files, viewer>>

\* ------------------------------------------- run_full_simulation, the rest
\* gif_path, actual_frames = convert_raw_to_frames(...)
\* if not gif_path: return False
Unpack ==
    /\ pc = "unpack"
    /\ IF ret.kind = "None"
       THEN Raise("TypeError", io_fault, frame_files, gif_files)
       ELSE IF ~Truthy(ret.gif_path)
            THEN Return("False", io_fault, frame_files, gif_files)
            ELSE /\ pc' = "report"
                 /\ UNCHANGED <<result, exc, hist>>
    /\ UNCHANGED <<runs, raw, configVars, localVars, diskVars>>

\* time_per_frame = elapsed_time / num_frames if num_frames > 0 else 0,
\* with elapsed_time > 0: is it zero?
TimePerFrameIsZero(num_frames) == ~(num_frames > 0)

\* print_completion_report, which divides by time_per_frame near its end.
Report ==
    /\ pc = "report"
    /\ out' = out \cup {"report"}
    /\ IF TimePerFrameIsZero(ret.frames)
       THEN Raise("ZeroDivisionError", io_fault, frame_files, gif_files)
       ELSE /\ pc' = "viewer"
            /\ UNCHANGED <<result, exc, hist>>
    /\ UNCHANGED <<runs, raw, configVars, output_name, timestamp, data, decoded,
                   actual_frames, images, ret, io_fault, diskVars>>

\* create_viewer_html and return True
CreateViewer ==
    /\ pc = "viewer"
    /\ viewer' = TRUE
    /\ Return("True", io_fault, frame_files, gif_files)
    /\ UNCHANGED <<runs, raw, configVars, localVars, frame_dirs, frame_files,
                   gif_files, latest_gif>>

\* ------------------------------------------- run_simulation and its thread
\* old_cwd = os.getcwd(); os.chdir(BUILD_DIR), outside the try statement: an
\* OSError leaves run_simulation at once.
RsChdir ==
    /\ rs_pc = "chdir"
    /\ \/ /\ cwd' = "build"
          /\ rs_pc' = "start_thread"
          /\ UNCHANGED <<rs_pending, rs_result>>
       \/ /\ rs_pc' = "exited"
          /\ rs_result' = "raised"
          /\ rs_pending' = "OSError"
          /\ UNCHANGED cwd
    /\ UNCHANGED <<rs_num_frames, stop_event, mon_pc, progress, vvp,
                   returncode, raw_frames>>

\* stop_event = threading.Event(); monitor_thread = threading.Thread(...);
\* monitor_thread.start(); start_time = time.time()
RsStartThread ==
    /\ rs_pc = "start_thread"
    /\ stop_event' = FALSE
    /\ mon_pc' = "test"
    /\ rs_pc' = "run"
    /\ UNCHANGED <<rs_num_frames, rs_pending, rs_result, cwd, progress, vvp,
                   returncode, raw_frames>>

\* subprocess.run(cmd, ...) starts the simulator, or raises when it cannot.
RsRun ==
    /\ rs_pc = "run"
    /\ \/ /\ vvp' = "running"
          /\ rs_pc' = "wait"
          /\ UNCHANGED rs_pending
       \/ /\ rs_pending' = "FileNotFoundError"
          /\ rs_pc' = "finally_chdir"
          /\ UNCHANGED vvp
    /\ UNCHANGED <<rs_num_frames, rs_result, cwd, stop_event, mon_pc,
                   progress, returncode, raw_frames>>

\* The simulator writes the next frame to vga_output.raw.
VvpWrite ==
    /\ vvp = "running"
    /\ raw_frames < rs_num_frames
    /\ raw_frames' = raw_frames + 1
    /\ UNCHANGED <<rs_pc, rs_num_frames, rs_pending, rs_result, cwd,
                   stop_event, mon_pc, progress, vvp, returncode>>

\* The simulator exits, with return code 0 or not.
VvpExit ==
    /\ vvp = "running"
    /\ vvp' = "exited"
    /\ returncode' \in {0, 1}
    /\ UNCHANGED <<rs_pc, rs_num_frames, rs_pending, rs_result, cwd,
                   stop_event, mon_pc, progress, raw_frames>>

\* subprocess.run returns when the simulator has exited, or is interrupted
\* (KeyboardInterrupt) while it waits, and then kills the simulator.
RsWait ==
    /\ rs_pc = "wait"
    /\ \/ /\ vvp = "exited"
          /\ rs_pc' = "set"
          /\ UNCHANGED <<rs_pending, vvp, returncode>>
       \/ /\ vvp = "running"
          /\ vvp' = "exited"
          /\ returncode' = 1
          /\ rs_pending' = "KeyboardInterrupt"
          /\ rs_pc' = "finally_chdir"
    /\ UNCHANGED <<rs_num_frames, rs_result, cwd, stop_event, mon_pc,
                   progress, raw_frames>>

\* stop_event.set()
RsSet ==
    /\ rs_pc = "set"
    /\ stop_event' = TRUE
    /\ rs_pc' = "join"
    /\ UNCHANGED <<rs_num_frames, rs_pending, rs_result, cwd, mon_pc,
                   progress, vvp, returncode, raw_frames>>

\* monitor_thread.join() returns when the thread has ended; then the return
\* statement for the simulator's return code.
RsJoin ==
    /\ rs_pc = "join"
    /\ mon_pc = "done"
    /\ rs_pending' = IF returncode # 0 THEN "None" ELSE "elapsed"
    /\ rs_pc' = "finally_chdir"
    /\ UNCHANGED <<rs_num_frames, rs_result, cwd, stop_event, mon_pc,
                   progress, vvp, returncode, raw_frames>>

\* finally: os.chdir(old_cwd), which raises when the directory is gone; the
\* exception replaces what was on its way out and ends the finally clause.
RsFinallyChdir ==
    /\ rs_pc = "finally_chdir"
    /\ \/ /\ cwd' = "old"
          /\ rs_pc' = "finally_set"
          /\ UNCHANGED <<rs_pending, rs_result>>
       \/ /\ rs_pc' = "exited"
          /\ rs_result' = "raised"
          /\ rs_pending' = "OSError"
          /\ UNCHANGED cwd
    /\ UNCHANGED <<rs_num_frames, stop_event, mon_pc, progress, vvp,
                   returncode, raw_frames>>

\* finally: stop_event.set(), and run_simulation is left with the return
\* value or the exception on its way out.
RsFinallySet ==
    /\ rs_pc = "finally_set"
    /\ stop_event' = TRUE
    /\ rs_pc' = "exited"
    /\ rs_result' = IF rs_pending \in {"None", "elapsed"} THEN rs_pending
                    ELSE "raised"
    /\ UNCHANGED <<rs_num_frames, rs_pending, cwd, mon_pc, progress, vvp,
                   returncode, raw_frames>>

\* monitor_progress: while not stop_event.is_set()
MonTest ==
    /\ mon_pc = "test"
    /\ mon_pc' = IF stop_event THEN "done" ELSE "sleep"
    /\ UNCHANGED <<rs_pc, rs_num_frames, rs_pending, rs_result, cwd,
                   stop_event, progress, vvp, returncode, raw_frames>>

\* monitor_progress: time.sleep(5) and the rest of the loop body.  The
\* progress line is printed when the raw file exists and a simulator is
\* found running (or tasklist cannot be run).
MonPoll ==
    /\ mon_pc = "sleep"
    /\ mon_pc' = "test"
    /\ \/ /\ vvp # "none"
          /\ progress' = progress \cup {raw_frames}
       \/ UNCHANGED progress
    /\ UNCHANGED <<rs_pc, rs_num_frames, rs_pending, rs_result, cwd,
                   stop_event, vvp, returncode, raw_frames>>

\* ------------------------------------------------------- capture harnesses
RECURSIVE BitOr(_, _)
BitOr(a, b) ==
    IF a = 0 THEN b
    ELSE IF b = 0 THEN a
    ELSE (IF a % 2 = 1 \/ b % 2 = 1 THEN 1 ELSE 0) + 2 * BitOr(a \div 2, b \div 2)

Shl(v, k) == v * (2 ^ k)

\* (val << 6) | (val << 4) | (val << 2) | val
extend_2bit_to_8bit_HighOnly(val) == Shl(val, 6)
extend_2bit_to_8bit(val) ==
    BitOr(BitOr(BitOr(Shl(val, 6), Shl(val, 4)), Shl(val, 2)), val)

\* The C++ testbench's extend_2bit: val &= 0x3, the same expression, returned
\* as unsigned char.
extend_2bit(val) ==
    LET v == val % 4
    IN  BitOr(BitOr(BitOr(Shl(v, 6), Shl(v, 4)), Shl(v, 2)), v) % 256

\* The testbench's {r_out, r_out, r_out, r_out}: four copies of a 2-bit
\* signal side by side, written as one byte.
Replicate4(v) == (((v % 4) * 4 + (v % 4)) * 4 + (v % 4)) * 4 + (v % 4)

H_TOTAL == H_DISPLAY + HBlank
V_TOTAL == V_DISPLAY + VBlank
NUM_FRAMES == MaxRasterFrames

\* The colour the design under test drives at pixel clock k of the visible
\* area: a base-4 counter, so that neighbouring pixels differ.
SampleAt(k) ==
    LET c == (seed + k) % 64
    IN  <<c % 4, (c \div 4) % 4, (c \div 16) % 4>>

\* save_frame with Pillow present: Image.frombytes and img.save.
SavedPng(ps) == ImageFile(FromBytes(H_DISPLAY, V_DISPLAY, ps))

\* VGAFrameCapture.clock_pixel(r, g, b, hsync, vsync) and the _save_frame it
\* calls when a raster frame ends.
CaptureClockPixel(r, g, b) ==
    LET line == IF h_count < H_DISPLAY /\ v_count < V_DISPLAY
                THEN current_line \o <<extend_2bit_to_8bit(r),
                                       extend_2bit_to_8bit(g),
                                       extend_2bit_to_8bit(b)>>
                ELSE current_line
        line_ends == h_count + 1 >= H_TOTAL
        frame_ends == line_ends /\ v_count + 1 >= V_TOTAL
        all_pixels == IF line_ends /\ v_count < V_DISPLAY
                      THEN pixels \o line ELSE pixels
        complete == Len(all_pixels) = H_DISPLAY * V_DISPLAY * 3
    IN  /\ h_count' = IF line_ends THEN 0 ELSE h_count + 1
        /\ current_line' = IF line_ends THEN <<>> ELSE line
        /\ v_count' = IF frame_ends THEN 0
                      ELSE IF line_ends THEN v_count + 1 ELSE v_count
        /\ pixels' = IF frame_ends THEN <<>> ELSE all_pixels
        /\ IF frame_ends /\ complete
           THEN /\ capture_files' =
                      (FrameFileName(frame_count) :> SavedPng(all_pixels))
                          @@ capture_files
                /\ capture_out' = capture_out \cup {"saved_frame"}
                /\ frame_count' = frame_count + 1
           ELSE /\ capture_out' = IF frame_ends
                                  THEN capture_out \cup {"warn_incomplete"}
                                  ELSE capture_out
                /\ UNCHANGED <<capture_files, frame_count>>

\* TestbenchClock that also writes the first blanking column of every line.
TestbenchClockOffByOne(r, g, b) ==
    LET line_ends == tb_h_count + 1 >= H_TOTAL
        frame_ends == line_ends /\ tb_v_count + 1 >= V_TOTAL
    IN  /\ pixel_file' =
              IF tb_h_count <= H_DISPLAY /\ tb_v_count < V_DISPLAY
              THEN pixel_file \o <<Replicate4(r), Replicate4(g), Replicate4(b)>>
              ELSE pixel_file
        /\ tb_h_count' = IF line_ends THEN 0 ELSE tb_h_count + 1
        /\ tb_v_count' = IF frame_ends THEN 0
                         ELSE IF line_ends THEN tb_v_count + 1 ELSE tb_v_count
        /\ tb_frame_count' = IF frame_ends THEN tb_frame_count + 1
                             ELSE tb_frame_count

\* One pass of the testbench loop "while (frame_count < NUM_FRAMES)".
TestbenchClock(r, g, b) ==
    LET line_ends == tb_h_count + 1 >= H_TOTAL
        frame_ends == line_ends /\ tb_v_count + 1 >= V_TOTAL
    IN  /\ pixel_file' =
              IF tb_h_count < H_DISPLAY /\ tb_v_count < V_DISPLAY
              THEN pixel_file \o <<Replicate4(r), Replicate4(g), Replicate4(b)>>
              ELSE pixel_file
        /\ tb_h_count' = IF line_ends THEN 0 ELSE tb_h_count + 1
        /\ tb_v_count' = IF frame_ends THEN 0
                         ELSE IF line_ends THEN tb_v_count + 1 ELSE tb_v_count
        /\ tb_frame_count' = IF frame_ends THEN tb_frame_count + 1
                             ELSE tb_frame_count

\* One pass of the C++ testbench loop "while (frame_count < NUM_FRAMES)": the
\* visible samples go to frame_buffer, which is written to the file and
\* cleared when the raster frame ends.
CppTestbenchClock(r, g, b) ==
    LET buffer == IF cpp_h_count < H_DISPLAY /\ cpp_v_count < V_DISPLAY
                  THEN frame_buffer \o <<extend_2bit(r), extend_2bit(g),
                                          extend_2bit(b)>>
                  ELSE frame_buffer
        line_ends == cpp_h_count + 1 >= H_TOTAL
        frame_ends == line_ends /\ cpp_v_count + 1 >= V_TOTAL
    IN  /\ cpp_h_count' = IF line_ends THEN 0 ELSE cpp_h_count + 1
        /\ cpp_v_count' = IF frame_ends THEN 0
                          ELSE IF line_ends THEN cpp_v_count + 1 ELSE cpp_v_count
        /\ cpp_frame_count' = IF frame_ends THEN cpp_frame_count + 1
                              ELSE cpp_frame_count
        /\ outfile' = IF frame_ends THEN outfile \o buffer ELSE outfile
        /\ frame_buffer' = IF frame_ends THEN <<>> ELSE buffer

\* cocotb_extend_2bit_to_8bit without the lowest copy of the two bits.
cocotb_extend_2bit_to_8bit_NoLow(val) ==
    LET v == val % 4
    IN  v * 64 + v * 16 + v * 4

\* test_vga_sphere.py: val = int(val) & 0x3, then the same expression.
cocotb_extend_2bit_to_8bit(val) ==
    LET v == val % 4
    IN  BitOr(BitOr(BitOr(Shl(v, 6), Shl(v, 4)), Shl(v, 2)), v)

\* One pass of the body of the cocotb test's "for h in range(H_TOTAL)" loop,
\* with the frame save and the next "pixels = []" when the last pass of a
\* frame is done.
CocotbClock(r, g, b) ==
    LET all_pixels == IF cocotb_h < H_DISPLAY /\ cocotb_v < V_DISPLAY
                      THEN cocotb_pixels \o <<cocotb_extend_2bit_to_8bit(r),
                                              cocotb_extend_2bit_to_8bit(g),
                                              cocotb_extend_2bit_to_8bit(b)>>
                      ELSE cocotb_pixels
        line_ends == cocotb_h + 1 >= H_TOTAL
        frame_ends == line_ends /\ cocotb_v + 1 >= V_TOTAL
    IN  /\ cocotb_h' = IF line_ends THEN 0 ELSE cocotb_h + 1
        /\ cocotb_v' = IF frame_ends THEN 0
                       ELSE IF line_ends THEN cocotb_v + 1 ELSE cocotb_v
        /\ cocotb_frame_num' = IF frame_ends THEN cocotb_frame_num + 1
                               ELSE cocotb_frame_num
        /\ cocotb_pixels' = IF frame_ends THEN <<>> ELSE all_pixels
        /\ cocotb_files' =
              IF frame_ends /\ Len(all_pixels) = H_DISPLAY * V_DISPLAY * 3
              THEN (FrameFileName(cocotb_frame_num) :> SavedPng(all_pixels))
                       @@ cocotb_files
              ELSE cocotb_files

\* A pixel clock: the design drives a colour (any colour during blanking),
\* and the capture object and the two testbenches sample it.
PixelClock ==
    /\ tb_frame_count < NUM_FRAMES
    /\ cpp_frame_count < NUM_FRAMES
    /\ cocotb_frame_num < NUM_FRAMES
    /\ \E r \in 0..3, g \in 0..3, b \in 0..3 :
          /\ (tb_h_count < H_DISPLAY /\ tb_v_count < V_DISPLAY)
                => <<r, g, b>> = SampleAt(clocks)
          /\ CaptureClockPixel(r, g, b)
          /\ TestbenchClock(r, g, b)
          /\ CocotbClock(r, g, b)
          /\ CppTestbenchClock(r, g, b)
    /\ clocks' = clocks + 1
    /\ UNCHANGED seed

\* ------------------------------------------- scripts/sphere_raymarcher.py
\* AngleOf for a loop variable that counts from one.
AngleOfNext(i, n) == (i + 1) * (TWO_PI \div n)

\* frame * (2 * math.pi / args.frames)
AngleOf(i, n) == i * (TWO_PI \div n)

\* One pass of "for frame in range(args.frames)": render the frame, name its
\* file frame_NNNN.png and save it.  saved_frame is the index of the frame
\* whose pixels went into the file.
RenderAndSave ==
    /\ frame < args_frames
    /\ angle' = AngleOf(frame, args_frames)
    /\ render_calls' = render_calls + 1
    /\ filename' = FrameFileName(frame)
    /\ saved_frame' = frame
    /\ prev_filename' = filename
    /\ frame' = frame + 1
    /\ UNCHANGED <<args_frames, marchVars, renderVars>>

\* math.sqrt on fixed-point numbers: the integer part of the square root.
RECURSIVE SqrtBetween(_, _, _)
SqrtBetween(x, lo, hi) ==
    IF lo >= hi THEN lo
    ELSE LET mid == (lo + hi + 1) \div 2
         IN  IF mid * mid <= x THEN SqrtBetween(x, mid, hi)
             ELSE SqrtBetween(x, lo, mid - 1)

sqrt(x) == SqrtBetween(x, 0, 46340)

dot(a, b) == (a[1] * b[1] + a[2] * b[2] + a[3] * b[3]) \div Scale

Abs(a) == IF a < 0 THEN -a ELSE a

\* math.sqrt(sum(x*x for x in v)).  Like a float, the result has a relative
\* precision: of a vector with a component of 26000 units or more the
\* length is taken in steps of 16 units.
Length(v) ==
    IF \A i \in 1..3 : Abs(v[i]) < 26000
    THEN sqrt(v[1] * v[1] + v[2] * v[2] + v[3] * v[3])
    ELSE 16 * sqrt((v[1] \div 16) * (v[1] \div 16)
                     + (v[2] \div 16) * (v[2] \div 16)
                     + (v[3] \div 16) * (v[3] \div 16))

sphere_sdf(pt, center, radius) ==
    LET dx == pt[1] - center[1]
        dy == pt[2] - center[2]
        dz == pt[3] - center[3]
    IN  Length(<<dx, dy, dz>>) - radius

\* PointAt along the opposite direction.
PointAtBackwards(o, d, tt) ==
    [i \in 1..3 |-> o[i] - (d[i] * tt) \div Scale]

\* [ray_origin[i] + ray_dir[i] * t for i in range(3)]
PointAt(o, d, tt) ==
    [i \in 1..3 |-> o[i] + (d[i] * tt) \div Scale]

NoReturn == [hit |-> FALSE, t |-> 0, p |-> <<>>]

\* The call ray_march(ray_origin, ray_dir, max_steps, max_dist) up to the
\* loop: t = 0.0.
RayMarchCall(o, d, ms, md) ==
    /\ march_pc = "idle"
    /\ ray_origin' = o
    /\ ray_dir' = d
    /\ max_steps' = ms
    /\ max_dist' = md
    /\ march_t' = 0
    /\ march_steps' = 0
    /\ sdf_evals' = 0
    /\ march_pc' = "loop"
    /\ UNCHANGED march_ret

\* RayMarchStep with the miss check "t >= max_dist".
RayMarchStepMissAtLimit ==
    /\ march_pc = "loop"
    /\ march_steps < max_steps
    /\ LET pt == PointAt(ray_origin, ray_dir, march_t)
           dist == sphere_sdf(pt, <<0, 0, 0>>, SPHERE_RADIUS)
       IN  /\ sdf_evals' = sdf_evals + 1
           /\ march_steps' = march_steps + 1
           /\ IF dist < HIT_EPSILON
              THEN /\ march_ret' = [hit |-> TRUE, t |-> march_t, p |-> pt]
                   /\ march_pc' = "returned"
                   /\ UNCHANGED march_t
              ELSE IF march_t >= max_dist
              THEN /\ march_ret' = [hit |-> FALSE, t |-> march_t, p |-> pt]
                   /\ march_pc' = "returned"
                   /\ UNCHANGED march_t
              ELSE /\ march_t' = march_t + dist
                   /\ UNCHANGED <<march_ret, march_pc>>
    /\ UNCHANGED <<ray_origin, ray_dir, max_steps, max_dist>>

\* One pass of "for _ in range(max_steps)".
RayMarchStep ==
    /\ march_pc = "loop"
    /\ march_steps < max_steps
    /\ LET pt == PointAt(ray_origin, ray_dir, march_t)
           dist == sphere_sdf(pt, <<0, 0, 0>>, SPHERE_RADIUS)
       IN  /\ sdf_evals' = sdf_evals + 1
           /\ march_steps' = march_steps + 1
           /\ IF dist < HIT_EPSILON
              THEN /\ march_ret' = [hit |-> TRUE, t |-> march_t, p |-> pt]
                   /\ march_pc' = "returned"
                   /\ UNCHANGED march_t
              ELSE IF march_t > max_dist
              THEN /\ march_ret' = [hit |-> FALSE, t |-> march_t, p |-> pt]
                   /\ march_pc' = "returned"
                   /\ UNCHANGED march_t
              ELSE /\ march_t' = march_t + dist
                   /\ UNCHANGED <<march_ret, march_pc>>
    /\ UNCHANGED <<ray_origin, ray_dir, max_steps, max_dist>>

\* The loop has made its last pass: return False, t and the point at t.
RayMarchExhausted ==
    /\ march_pc = "loop"
    /\ ~(march_steps < max_steps)
    /\ march_ret' = [hit |-> FALSE, t |-> march_t,
                     p |-> PointAt(ray_origin, ray_dir, march_t)]
    /\ march_pc' = "returned"
    /\ UNCHANGED <<ray_origin, ray_dir, max_steps, max_dist, march_t,
                   march_steps, sdf_evals>>

\* ------------------------------------------------------------ render_frame
\* The product of two fixed-point numbers.
Mul(a, b) == (a * b) \div Scale

\* The result of normalize when it divides by a length of zero.
DivisionError == <<"ZeroDivisionError">>

\* normalize without the test of the length.
normalizeUnguarded(v) ==
    LET length == Length(v)
    IN  IF length = 0 THEN DivisionError
        ELSE [i \in 1..3 |-> (v[i] * Scale) \div length]

\* normalize(v): [0, 0, 1] when the length is below 0.0001, else v / length.
normalize(v) ==
    LET length == Length(v)
    IN  IF length * ThresholdDen < Scale THEN <<0, 0, Scale>>
        ELSE IF length = 0 THEN DivisionError
        ELSE [i \in 1..3 |-> (v[i] * Scale) \div length]

\* math.sin on 0 .. pi/2, by its power series to the seventh power.
SinQuarter(x) ==
    LET x2 == Mul(x, x)
        x3 == Mul(x2, x)
        x5 == Mul(x3, x2)
        x7 == Mul(x5, x2)
    IN  x - x3 \div 6 + x5 \div 120 - x7 \div 5040

\* math.sin and math.cos
Sin(a) ==
    LET r == a % TWO_PI
        pi == TWO_PI \div 2
        half == TWO_PI \div 4
    IN  IF r <= half THEN SinQuarter(r)
        ELSE IF r <= pi THEN SinQuarter(pi - r)
        ELSE IF r <= pi + half THEN -SinQuarter(r - pi)
        ELSE -SinQuarter(TWO_PI - r)

Cos(a) == Sin(a + TWO_PI \div 4)

\* x ** n for a natural number n, as far as 10.0
RECURSIVE PowN(_, _)
PowN(x, n) ==
    IF n = 0 THEN Scale ELSE Min(10 * Scale, Mul(PowN(x, n - 1), x))

\* luma ** 0.9 for luma in 0 .. 1: the largest y in lo..hi with
\* y ** 10 <= luma ** 9, that is y * (y / luma) ** 9 <= 1.
RECURSIVE Pow09Between(_, _, _)
Pow09Between(luma, lo, hi) ==
    IF lo >= hi THEN lo
    ELSE LET mid == (lo + hi + 1) \div 2
         IN  IF Mul(mid, PowN(Min(10 * Scale, (mid * Scale) \div luma), 9)) <= Scale
             THEN Pow09Between(luma, mid, hi)
             ELSE Pow09Between(luma, lo, mid - 1)

Pow09(luma) == IF luma <= 0 THEN 0 ELSE Pow09Between(luma, luma, Scale)

\* ray_march as a function of its arguments: the outcome of the loop from
\* t = tt with n passes left.
RECURSIVE RayMarchFrom(_, _, _, _, _)
RayMarchFrom(o, d, tt, n, md) ==
    LET pt == PointAt(o, d, tt)
        dist == sphere_sdf(pt, <<0, 0, 0>>, SPHERE_RADIUS)
    IN  IF n <= 0 THEN [hit |-> FALSE, t |-> tt, p |-> pt]
        ELSE IF dist < HIT_EPSILON THEN [hit |-> TRUE, t |-> tt, p |-> pt]
        ELSE IF tt > md THEN [hit |-> FALSE, t |-> tt, p |-> pt]
        ELSE RayMarchFrom(o, d, tt + dist, n - 1, md)

\* ray_march(ray_origin, ray_dir) with max_steps=64, max_dist=20.0
ray_march(o, d) == RayMarchFrom(o, d, 0, DefaultMaxSteps, DefaultMaxDist)

\* camera = [cam_x, cam_y, cam_z] of render_frame(a)
CameraPosition(a) ==
    <<Mul(Sin(a), CAMERA_DISTANCE), Scale \div 2, Mul(Cos(a), CAMERA_DISTANCE)>>

\* up, the cross product of right and forward
Cross(right, forward) ==
    <<Mul(right[2], forward[3]) - Mul(right[3], forward[2]),
      Mul(right[3], forward[1]) - Mul(right[1], forward[3]),
      Mul(right[1], forward[2]) - Mul(right[2], forward[1])>>

CameraBasis(cam, forward, right) ==
    [camera |-> cam, forward |-> forward, right |-> right,
     up |-> Cross(right, forward)]

\* right = normalize([forward[2], 0, -forward[0]]), and up from it
CameraFacing(cam, forward) ==
    CameraBasis(cam, forward, normalize(<<forward[3], 0, -forward[1]>>))

\* Camera with forward pointing from the origin to the camera.
CameraLookingAway(a) ==
    CameraFacing(CameraPosition(a), normalize(CameraPosition(a)))

\* The camera of render_frame(a): position, forward, right and up, with
\* forward = normalize([-cam_x, -cam_y, -cam_z]).
Camera(a) ==
    CameraFacing(CameraPosition(a),
                 normalize([i \in 1..3 |-> -CameraPosition(a)[i]]))

\* light = normalize([0.5, 0.8, 0.3])
Light == normalize(<<Scale \div 2, (8 * Scale) \div 10, (3 * Scale) \div 10>>)

\* HitColour without the clamp to 255.
HitColourUnclamped(pos) ==
    LET normal == normalize(pos)
        d == dot(normal, Light)
        diffuse == IF d > 0 THEN d ELSE 0
        lit == (15 * Scale) \div 100 + Mul(diffuse, (85 * Scale) \div 100)
        luma == Pow09(Min(Scale, lit))
    IN  <<(luma * 255) \div Scale + 50,
          (luma * 180) \div Scale + 30,
          (luma * 100) \div Scale + 20>>

\* The colour of a pixel whose ray hit the sphere at pos.
HitColour(pos) ==
    LET normal == normalize(pos)
        d == dot(normal, Light)
        diffuse == IF d > 0 THEN d ELSE 0
        lit == (15 * Scale) \div 100 + Mul(diffuse, (85 * Scale) \div 100)
        luma == Pow09(Min(Scale, lit))
    IN  <<Min(255, (luma * 255) \div Scale + 50),
          Min(255, (luma * 180) \div Scale + 30),
          Min(255, (luma * 100) \div Scale + 20)>>

\* The sky gradient of row y: t = y / HEIGHT
SkyColour(y, h) ==
    <<20 + (y * 15) \div h, 30 + (y * 20) \div h, 80 + (y * 40) \div h>>

\* The body of the loops over y and x, for the camera c: the ray of pixel
\* (x, y) of a w by h frame, marched and shaded.
PixelFrom(c, w, h, x, y) ==
    LET aspect == (w * Scale) \div h
        u == Mul((2 * x * Scale) \div w - Scale, aspect)
        v == Scale - (2 * y * Scale) \div h
        ray_d == normalize([i \in 1..3 |->
                    c.forward[i] + Mul(c.right[i], u) + Mul(c.up[i], v)])
        m == ray_march(c.camera, ray_d)
    IN  [hit |-> m.hit,
         rgb |-> IF m.hit THEN HitColour(m.p) ELSE SkyColour(y, h)]

\* Pixel with a sky gradient along the row: t = x / WIDTH.
PixelSkyByColumn(a, w, h, x, y) ==
    LET px == PixelFrom(Camera(a), w, h, x, y)
    IN  [hit |-> px.hit,
         rgb |-> IF px.hit THEN px.rgb ELSE SkyColour(x, w)]

\* Pixel (x, y) of the w by h frame render_frame(a) computes.
Pixel(a, w, h, x, y) == PixelFrom(Camera(a), w, h, x, y)

\* pixels = render_frame(angle) in the loop of main: the camera angle of
\* this frame, and pixels = [].
RenderFrameCall ==
    /\ rf_pc = "idle"
    /\ frame < args_frames
    /\ angle' = AngleOf(frame, args_frames)
    /\ render_calls' = render_calls + 1
    /\ rf_pixels' = <<>>
    /\ rf_log' = <<>>
    /\ rf_y' = 0
    /\ rf_pc' = "loop"
    /\ UNCHANGED <<WIDTH, HEIGHT, rf_frames, args_frames, frame, filename,
                   saved_frame, prev_filename>>

\* RenderRow with the loops exchanged: a pass renders the pixels of
\* column rf_y, from the top down.
RenderRowColumnMajor ==
    /\ rf_pc = "loop"
    /\ rf_y < HEIGHT
    /\ LET px == [y \in 0..(HEIGHT - 1) |->
                    Pixel(angle, WIDTH, HEIGHT, rf_y, y)]
       IN  /\ rf_pixels' = rf_pixels \o
                 [i \in 1..(3 * HEIGHT) |->
                     px[(i - 1) \div 3].rgb[((i - 1) % 3) + 1]]
           /\ rf_log' = rf_log \o
                 [i \in 1..HEIGHT |->
                     [x |-> rf_y, y |-> i - 1, hit |-> px[i - 1].hit]]
    /\ rf_y' = rf_y + 1
    /\ UNCHANGED <<WIDTH, HEIGHT, rf_pc, rf_frames, args_frames, frame,
                   filename, saved_frame, prev_filename, angle, render_calls>>

\* One pass of "for y in range(HEIGHT)": for x in range(WIDTH), the pixel
\* (x, y) is computed and pixels.extend([r, g, b]).
RenderRow ==
    /\ rf_pc = "loop"
    /\ rf_y < HEIGHT
    /\ LET px == [x \in 0..(WIDTH - 1) |->
                    Pixel(angle, WIDTH, HEIGHT, x, rf_y)]
       IN  /\ rf_pixels' = rf_pixels \o
                 [i \in 1..(3 * WIDTH) |->
                     px[(i - 1) \div 3].rgb[((i - 1) % 3) + 1]]
           /\ rf_log' = rf_log \o
                 [i \in 1..WIDTH |->
                     [x |-> i - 1, y |-> rf_y, hit |-> px[i - 1].hit]]
    /\ rf_y' = rf_y + 1
    /\ UNCHANGED <<WIDTH, HEIGHT, rf_pc, rf_frames, args_frames, frame,
                   filename, saved_frame, prev_filename, angle, render_calls>>

\* The loops have ended: return pixels.
RenderFrameReturn ==
    /\ rf_pc = "loop"
    /\ ~(rf_y < HEIGHT)
    /\ rf_pc' = "returned"
    /\ UNCHANGED <<WIDTH, HEIGHT, rf_y, rf_pixels, rf_log, rf_frames,
                   args_frames, frame, filename, saved_frame, prev_filename,
                   angle, render_calls>>

\* The rest of the pass of the loop of main: the image is made of the
\* pixels and saved as frame_NNNN.png.
RenderFrameSave ==
    /\ rf_pc = "returned"
    /\ rf_frames' = Append(rf_frames, [angle |-> angle, pixels |-> rf_pixels,
                                       log |-> rf_log])
    /\ filename' = FrameFileName(frame)
    /\ saved_frame' = frame
    /\ prev_filename' = filename
    /\ frame' = frame + 1
    /\ rf_pc' = "idle"
    /\ UNCHANGED <<WIDTH, HEIGHT, rf_y, rf_pixels, rf_log, args_frames,
                   angle, render_calls>>

\* A call of normalize(v).
NormalizeCall(v) ==
    /\ norm_pc = "idle"
    /\ norm_v' = v
    /\ norm_ret' = normalize(v)
    /\ norm_pc' = "returned"

\* ---------------------------------------------------------- specification
\* The pipeline: runs of run_full_simulation on an empty output directory.
InitLocals ==
    /\ output_name = "sphere_floor"
    /\ timestamp = 0
    /\ data = <<>>
    /\ decoded = FALSE
    /\ actual_frames = 0
    /\ images = <<>>
    /\ ret = RetUnset
    /\ out = {}
    /\ io_fault = FALSE
    /\ exc = ""
    /\ hist = <<>>

InitDisk ==
    /\ frame_dirs = {}
    /\ frame_files = <<>>
    /\ gif_files = <<>>
    /\ latest_gif = [c \in Categories |-> AbsentGif]
    /\ viewer = FALSE

InitRaster ==
    /\ seed = 0
    /\ clocks = 0
    /\ h_count = 0
    /\ v_count = 0
    /\ frame_count = 0
    /\ pixels = <<>>
    /\ current_line = <<>>
    /\ capture_files = <<>>
    /\ capture_out = {}
    /\ tb_h_count = 0
    /\ tb_v_count = 0
    /\ tb_frame_count = 0
    /\ pixel_file = <<>>
    /\ cpp_h_count = 0
    /\ cpp_v_count = 0
    /\ cpp_frame_count = 0
    /\ frame_buffer = <<>>
    /\ outfile = <<>>
    /\ cocotb_h = 0
    /\ cocotb_v = 0
    /\ cocotb_frame_num = 0
    /\ cocotb_pixels = <<>>
    /\ cocotb_files = <<>>

InitSim ==
    /\ rs_pc = "chdir"
    /\ rs_num_frames = 1
    /\ rs_pending = ""
    /\ rs_result = "none"
    /\ cwd = "old"
    /\ stop_event = FALSE
    /\ mon_pc = "none"
    /\ progress = {}
    /\ vvp = "none"
    /\ returncode = 0
    /\ raw_frames = 0

InitMarch ==
    /\ march_pc = "idle"
    /\ ray_origin = <<0, 0, 0>>
    /\ ray_dir = <<0, 0, Scale>>
    /\ max_steps = 0
    /\ max_dist = 0
    /\ march_t = 0
    /\ march_steps = 0
    /\ sdf_evals = 0
    /\ march_ret = NoReturn

InitRender ==
    /\ WIDTH = 1
    /\ HEIGHT = 1
    /\ rf_pc = "idle"
    /\ rf_y = 0
    /\ rf_pixels = <<>>
    /\ rf_log = <<>>
    /\ rf_frames = <<>>

InitNormalize ==
    /\ norm_pc = "idle"
    /\ norm_v = <<0, 0, 0>>
    /\ norm_ret = <<>>

InitLoop ==
    /\ InitMarch
    /\ InitRender
    /\ InitNormalize
    /\ args_frames = 0
    /\ frame = 0
    /\ filename = <<>>
    /\ saved_frame = 0
    /\ prev_filename = <<>>
    /\ angle = 0
    /\ render_calls = 0

Init ==
    /\ H_DISPLAY = PipeWidth
    /\ V_DISPLAY = PipeHeight
    /\ pc = "idle"
    /\ runs = 0
    /\ raw = AbsentRaw
    /\ result = "none"
    /\ InitLocals
    /\ InitSim
    /\ InitDisk
    /\ InitRaster
    /\ InitLoop

vars == <<configVars, pipeVars, rasterVars, loopVars, simVars>>

Next ==
    \/ StartRun /\ UNCHANGED <<rasterVars, loopVars, simVars>>
    \/ BuildSimulation /\ UNCHANGED <<rasterVars, loopVars, simVars>>
    \/ RunSimulation /\ UNCHANGED <<rasterVars, loopVars, simVars>>
    \/ ConvertBegin /\ UNCHANGED <<rasterVars, loopVars, simVars>>
    \/ SaveFrame /\ UNCHANGED <<rasterVars, loopVars, simVars>>
    \/ SaveGif /\ UNCHANGED <<rasterVars, loopVars, simVars>>
    \/ LatestRemove /\ UNCHANGED <<rasterVars, loopVars, simVars>>
    \/ LatestCopyOpen /\ UNCHANGED <<rasterVars, loopVars, simVars>>
    \/ LatestCopyWrite /\ UNCHANGED <<rasterVars, loopVars, simVars>>
    \/ Unpack /\ UNCHANGED <<rasterVars, loopVars, simVars>>
    \/ Report /\ UNCHANGED <<rasterVars, loopVars, simVars>>
    \/ CreateViewer /\ UNCHANGED <<rasterVars, loopVars, simVars>>

Spec == Init /\ [][Next]_vars

\* The decoder: one call of convert_raw_to_frames on an empty output
\* directory, for every display size and raw stream within the bounds.
InitDecode ==
    /\ H_DISPLAY \in 1..MaxWidth
    /\ V_DISPLAY \in 1..MaxHeight
    /\ pc = "convert"
    /\ runs = 1
    /\ raw \in {RawFile(Ramp(s, l)) : s \in 0..MaxSeed, l \in 0..MaxDecodeLen}
               \cup {AbsentRaw}
    /\ result = "running"
    /\ InitLocals
    /\ InitSim
    /\ InitDisk
    /\ InitRaster
    /\ InitLoop

NextDecode ==
    \/ ConvertBegin /\ UNCHANGED <<rasterVars, loopVars, simVars>>
    \/ SaveFrame /\ UNCHANGED <<rasterVars, loopVars, simVars>>
    \/ SaveGif /\ UNCHANGED <<rasterVars, loopVars, simVars>>
    \/ LatestRemove /\ UNCHANGED <<rasterVars, loopVars, simVars>>
    \/ LatestCopyOpen /\ UNCHANGED <<rasterVars, loopVars, simVars>>
    \/ LatestCopyWrite /\ UNCHANGED <<rasterVars, loopVars, simVars>>

SpecDecode == InitDecode /\ [][NextDecode]_vars

\* The capture harnesses: a VGAFrameCapture object and the testbench of
\* run.py sample the same design, for every display size within the bounds.
InitStream ==
    /\ H_DISPLAY \in 1..MaxWidth
    /\ V_DISPLAY \in 1..MaxHeight
    /\ pc = "idle"
    /\ runs = 0
    /\ raw = AbsentRaw
    /\ result = "none"
    /\ InitLocals
    /\ InitSim
    /\ InitDisk
    /\ seed \in 0..MaxSeed
    /\ clocks = 0
    /\ h_count = 0
    /\ v_count = 0
    /\ frame_count = 0
    /\ pixels = <<>>
    /\ current_line = <<>>
    /\ capture_files = <<>>
    /\ capture_out = {}
    /\ tb_h_count = 0
    /\ tb_v_count = 0
    /\ tb_frame_count = 0
    /\ pixel_file = <<>>
    /\ cpp_h_count = 0
    /\ cpp_v_count = 0
    /\ cpp_frame_count = 0
    /\ frame_buffer = <<>>
    /\ outfile = <<>>
    /\ cocotb_h = 0
    /\ cocotb_v = 0
    /\ cocotb_frame_num = 0
    /\ cocotb_pixels = <<>>
    /\ cocotb_files = <<>>
    /\ InitLoop

NextStream ==
    \/ PixelClock /\ UNCHANGED <<configVars, pipeVars, loopVars, simVars>>

SpecStream == InitStream /\ [][NextStream]_vars

\* The frame loop of scripts/sphere_raymarcher.py for --frames MaxFrameArg.
InitNames ==
    /\ H_DISPLAY = PipeWidth
    /\ V_DISPLAY = PipeHeight
    /\ pc = "idle"
    /\ runs = 0
    /\ raw = AbsentRaw
    /\ result = "none"
    /\ InitLocals
    /\ InitSim
    /\ InitDisk
    /\ InitRaster
    /\ InitMarch
    /\ InitRender
    /\ InitNormalize
    /\ args_frames = MaxFrameArg
    /\ frame = 0
    /\ filename = <<>>
    /\ saved_frame = 0
    /\ prev_filename = <<>>
    /\ angle = 0
    /\ render_calls = 0

NextNames ==
    \/ RenderAndSave /\ UNCHANGED <<configVars, pipeVars, rasterVars, simVars>>

SpecNames == InitNames /\ [][NextNames]_vars

\* The frame loop of scripts/sphere_raymarcher.py for every --frames up to
\* MaxOrbitFrames, the negative -1 included.
InitOrbit ==
    /\ H_DISPLAY = PipeWidth
    /\ V_DISPLAY = PipeHeight
    /\ pc = "idle"
    /\ runs = 0
    /\ raw = AbsentRaw
    /\ result = "none"
    /\ InitLocals
    /\ InitSim
    /\ InitDisk
    /\ InitRaster
    /\ InitMarch
    /\ InitRender
    /\ InitNormalize
    /\ args_frames \in -1..MaxOrbitFrames
    /\ frame = 0
    /\ filename = <<>>
    /\ saved_frame = 0
    /\ prev_filename = <<>>
    /\ angle = 0
    /\ render_calls = 0

NextOrbit ==
    \/ RenderAndSave /\ UNCHANGED <<configVars, pipeVars, rasterVars, simVars>>

SpecOrbit == InitOrbit /\ [][NextOrbit]_vars

\* A call of run_simulation for every num_frames up to MaxSimFrames, with
\* its monitor thread and the simulator running beside it.
InitSimulation ==
    /\ H_DISPLAY = PipeWidth
    /\ V_DISPLAY = PipeHeight
    /\ pc = "idle"
    /\ runs = 0
    /\ raw = AbsentRaw
    /\ result = "none"
    /\ InitLocals
    /\ InitDisk
    /\ InitRaster
    /\ InitLoop
    /\ rs_pc = "chdir"
    /\ rs_num_frames \in 1..MaxSimFrames
    /\ rs_pending = ""
    /\ rs_result = "none"
    /\ cwd = "old"
    /\ stop_event = FALSE
    /\ mon_pc = "none"
    /\ progress = {}
    /\ vvp = "none"
    /\ returncode = 0
    /\ raw_frames = 0

simFrame == <<configVars, pipeVars, rasterVars, loopVars>>

NextSimulation ==
    \/ RsChdir /\ UNCHANGED simFrame
    \/ RsStartThread /\ UNCHANGED simFrame
    \/ RsRun /\ UNCHANGED simFrame
    \/ RsWait /\ UNCHANGED simFrame
    \/ RsSet /\ UNCHANGED simFrame
    \/ RsJoin /\ UNCHANGED simFrame
    \/ RsFinallyChdir /\ UNCHANGED simFrame
    \/ RsFinallySet /\ UNCHANGED simFrame
    \/ VvpWrite /\ UNCHANGED simFrame
    \/ VvpExit /\ UNCHANGED simFrame
    \/ MonTest /\ UNCHANGED simFrame
    \/ MonPoll /\ UNCHANGED simFrame

SpecSimulation == InitSimulation /\ [][NextSimulation]_vars

\* Calls of ray_march.  The origins are the camera of render_frame(0) and
\* points on the axes at, just outside and far from the sphere; the
\* directions are unit vectors; the limits are -1, 0, 0.0005, 0.5 and 2.
RayOrigins ==
    {<<0, 2000, 16000>>, <<0, 0, 16000>>, <<0, 0, 6000>>, <<0, 0, 6003>>,
     <<0, 0, 6010>>, <<0, 0, 9000>>, <<10000, 0, 0>>, <<0, 0, 0>>}

RayDirs ==
    {<<0, 0, Scale>>, <<0, 0, -Scale>>, <<2400, 0, -3200>>, <<2400, 0, 3200>>,
     <<1200, 0, -3816>>, <<-Scale, 0, 0>>}

MaxDists == {-4000, 0, 2, 2000, 8000}

InitMarchSpec ==
    /\ H_DISPLAY = PipeWidth
    /\ V_DISPLAY = PipeHeight
    /\ pc = "idle"
    /\ runs = 0
    /\ raw = AbsentRaw
    /\ result = "none"
    /\ InitLocals
    /\ InitSim
    /\ InitDisk
    /\ InitRaster
    /\ InitLoop

marchFrame == <<configVars, pipeVars, rasterVars, args_frames, frame,
                filename, saved_frame, prev_filename, angle, render_calls,
                renderVars, simVars>>

NextMarch ==
    \/ /\ \E o \in RayOrigins, d \in RayDirs, ms \in 0..MaxMarchSteps,
             md \in MaxDists : RayMarchCall(o, d, ms, md)
       /\ UNCHANGED marchFrame
    \/ RayMarchStep /\ UNCHANGED marchFrame
    \/ RayMarchExhausted /\ UNCHANGED marchFrame

SpecMarch == InitMarchSpec /\ [][NextMarch]_vars

\* Renderings by the loop of main: a 64 by 48 frame at angle 0, and every
\* frame of every orbit of up to MaxRenderFrames frames at every screen size
\* up to MaxRenderWidth by MaxRenderHeight.
RenderRuns ==
    {<<64, 48, 1>>}
        \cup {<<w, h, n>> : w \in 1..MaxRenderWidth, h \in 1..MaxRenderHeight,
                            n \in 1..MaxRenderFrames}

InitRenderSpec ==
    /\ H_DISPLAY = PipeWidth
    /\ V_DISPLAY = PipeHeight
    /\ pc = "idle"
    /\ runs = 0
    /\ raw = AbsentRaw
    /\ result = "none"
    /\ InitLocals
    /\ InitSim
    /\ InitDisk
    /\ InitRaster
    /\ InitMarch
    /\ InitNormalize
    /\ \E r \in RenderRuns :
          /\ WIDTH = r[1]
          /\ HEIGHT = r[2]
          /\ args_frames = r[3]
    /\ rf_pc = "idle"
    /\ rf_y = 0
    /\ rf_pixels = <<>>
    /\ rf_log = <<>>
    /\ rf_frames = <<>>
    /\ frame = 0
    /\ filename = <<>>
    /\ saved_frame = 0
    /\ prev_filename = <<>>
    /\ angle = 0
    /\ render_calls = 0

renderFrame == <<configVars, pipeVars, rasterVars, marchVars, norm_pc,
                 norm_v, norm_ret, simVars>>

NextRender ==
    \/ RenderFrameCall /\ UNCHANGED renderFrame
    \/ RenderRow /\ UNCHANGED renderFrame
    \/ RenderFrameReturn /\ UNCHANGED renderFrame
    \/ RenderFrameSave /\ UNCHANGED renderFrame

SpecRender == InitRenderSpec /\ [][NextRender]_vars

\* Calls of normalize: vectors of components of up to MaxNormUnits units,
\* the zero vector among them, or of one unit length.
NormComponents == (-MaxNormUnits .. MaxNormUnits) \cup {-Scale, Scale}

NormInputs == {<<a, b, c>> : a \in NormComponents, b \in NormComponents,
                             c \in NormComponents}

InitNormalizeSpec ==
    /\ H_DISPLAY = PipeWidth
    /\ V_DISPLAY = PipeHeight
    /\ pc = "idle"
    /\ runs = 0
    /\ raw = AbsentRaw
    /\ result = "none"
    /\ InitLocals
    /\ InitSim
    /\ InitDisk
    /\ InitRaster
    /\ InitLoop

normalizeFrame == <<configVars, pipeVars, rasterVars, args_frames, frame,
                    filename, saved_frame, prev_filename, angle, render_calls,
                    marchVars, WIDTH, HEIGHT, rf_pc, rf_y, rf_pixels,
                    rf_log, rf_frames, simVars>>

NextNormalize ==
    \/ /\ \E v \in NormInputs : NormalizeCall(v)
       /\ UNCHANGED normalizeFrame

SpecNormalize == InitNormalizeSpec /\ [][NextNormalize]_vars

\* ------------------------------------------------------------------ claims
\* The decode loop has ended without an exception.
LoopDone == pc \in {"latest", "latest_copy", "latest_write", "unpack"}

\* Frame i (from 0) of the decoded sequence holds, byte for byte, the bytes
\* of the stream from offset i * width * height * 3 on.
FrameIsSlice(i) ==
    LET n == H_DISPLAY * V_DISPLAY * 3
        bytes == ToBytes(images[i + 1])
    IN  /\ Len(bytes) = n
        /\ \A j \in 1..n : bytes[j] = data[i * n + j]

\* C1: a stream that is n >= 1 whole frames of width*height*3 bytes decodes
\* to exactly n frames, and frame i is byte for byte the i-th slice of the
\* stream, in increasing i; the file frame_<i> holds that frame.
C1_WholeFramesDecodeToSlices ==
    (decoded /\ Len(data) % (H_DISPLAY * V_DISPLAY * 3) = 0
             /\ Len(data) >= H_DISPLAY * V_DISPLAY * 3) =>
        /\ exc # "" => io_fault
        /\ LoopDone => Len(images) * (H_DISPLAY * V_DISPLAY * 3) = Len(data)
        /\ \A i \in 0..(Len(images) - 1) :
              /\ FrameIsSlice(i)
              /\ <<output_name, timestamp, FrameFileName(i)>> \in DOMAIN frame_files
              /\ frame_files[<<output_name, timestamp, FrameFileName(i)>>]
                    = ImageFile(images[i + 1])

\* Two frames of more than one row and more than one column were decoded
\* from a stream of whole frames.
C1_Witness ==
    /\ LoopDone
    /\ H_DISPLAY > 1
    /\ V_DISPLAY > 1
    /\ Len(data) = 2 * (H_DISPLAY * V_DISPLAY * 3)
    /\ Len(images) = 2
    /\ ToBytes(images[2]) = SubSeq(data, H_DISPLAY * V_DISPLAY * 3 + 1, Len(data))

\* The bytes after the last whole frame of the stream.
TailBytes ==
    LET n == H_DISPLAY * V_DISPLAY * 3
    IN  {data[p] : p \in ((Len(data) \div n) * n + 1)..Len(data)}

\* C2: a stream of n whole frames and 0 < k < frameSize more bytes decodes to
\* exactly n frames, the slices of the stream; none of the k trailing bytes
\* is in a frame, and decoding raises nothing (an exception is a failed file
\* write).
C2_TrailingBytesDropped ==
    (decoded /\ Len(data) % (H_DISPLAY * V_DISPLAY * 3) # 0) =>
        /\ exc # "" => io_fault
        /\ Len(images) <= Len(data) \div (H_DISPLAY * V_DISPLAY * 3)
        /\ \A i \in 0..(Len(images) - 1) :
              /\ FrameIsSlice(i)
              /\ \A j \in 1..Len(ToBytes(images[i + 1])) :
                    ToBytes(images[i + 1])[j] \notin TailBytes
        /\ LoopDone => Len(images) = Len(data) \div (H_DISPLAY * V_DISPLAY * 3)

\* A stream of one or more whole frames and a tail was decoded to the end.
C2_Witness ==
    /\ pc = "unpack"
    /\ decoded
    /\ Len(data) % (H_DISPLAY * V_DISPLAY * 3) # 0
    /\ Len(data) > H_DISPLAY * V_DISPLAY * 3
    /\ Len(images) = Len(data) \div (H_DISPLAY * V_DISPLAY * 3)
    /\ TailBytes # {}
    /\ exc = ""

\* The messages of convert_raw_to_frames that are warnings.
WarningKinds == {"warn_latest"}

\* C3: convert_raw_to_frames has printed a warning by the time it returns
\* whenever the length of the stream it decoded is no multiple of the frame
\* size.
C3_TruncationIsWarned ==
    (pc = "unpack" /\ decoded /\ Len(data) % (H_DISPLAY * V_DISPLAY * 3) # 0)
        => out \cap WarningKinds # {}

\* The frames VGAFrameCapture has saved, in the order of their file names.
StreamedFrames ==
    [i \in 1..frame_count |-> capture_files[FrameFileName(i - 1)].img]

\* The frames convert_raw_to_frames cuts out of the bytes bs.
BatchFrames(bs) ==
    [i \in 1..ActualFrames(bs, frame_size) |->
        FromBytes(H_DISPLAY, V_DISPLAY, FrameData(bs, i - 1, frame_size))]

\* C4 as claimed: after any sequence of samples, the frames VGAFrameCapture
\* has saved are, in number, order and bytes, the frames convert_raw_to_frames
\* cuts out of the visible-area bytes of those samples.
C4_StreamingEqualsBatch ==
    /\ Cardinality(DOMAIN capture_files) = frame_count
    /\ StreamedFrames = BatchFrames(pixel_file)

\* C4 as amended: the saved frames are the first frame_count frames of the
\* batch decode, which has at most one frame more; the two are the same
\* whenever the samples end on a raster frame boundary.
C4_StreamingIsPrefixOfBatch ==
    LET batch == BatchFrames(pixel_file)
    IN  /\ Cardinality(DOMAIN capture_files) = frame_count
        /\ frame_count <= Len(batch)
        /\ Len(batch) <= frame_count + 1
        /\ \A i \in 1..frame_count : StreamedFrames[i] = batch[i]
        /\ (h_count = 0 /\ v_count = 0) => StreamedFrames = batch

\* Two whole raster frames of more than one row and column were sampled and
\* both decoders hold two different frames.
C4_Witness ==
    /\ H_DISPLAY > 1
    /\ V_DISPLAY > 1
    /\ clocks = 2 * H_TOTAL * V_TOTAL
    /\ frame_count = 2
    /\ Len(BatchFrames(pixel_file)) = 2
    /\ StreamedFrames[1] # StreamedFrames[2]

\* The characters of a file name frame_<digits>.png from the first digit to
\* the dot, as character codes ("0" is 48, "." is 46).
NameChars(ds) ==
    [k \in 1..(Len(ds) + 1) |-> IF k <= Len(ds) THEN 48 + ds[k] ELSE 46]

\* String order of two file names.
StrLess(a, b) ==
    LET x == NameChars(a)
        y == NameChars(b)
    IN  \/ \E k \in 1..Min(Len(x), Len(y)) :
              /\ \A j \in 1..(k - 1) : x[j] = y[j]
              /\ x[k] < y[k]
        \/ /\ Len(x) < Len(y)
           /\ \A j \in 1..Len(x) : x[j] = y[j]

RECURSIVE ParseInt(_)
ParseInt(ds) ==
    IF Len(ds) = 0 THEN 0
    ELSE 10 * ParseInt(SubSeq(ds, 1, Len(ds) - 1)) + ds[Len(ds)]

\* C10 as claimed: for every frame count, the file saved for frame i is
\* named by i written in exactly four zero-padded digits and holds frame i,
\* and each name sorts after the name before it.
C10_NamesIncreaseForEveryCount ==
    frame >= 1 =>
        /\ Len(filename) = PadWidth
        /\ ParseInt(filename) = frame - 1
        /\ saved_frame = frame - 1
        /\ frame >= 2 => StrLess(prev_filename, filename)

\* C10 as amended: the file saved for frame i is named by i in at least four
\* digits, zero-padded only up to four, and holds frame i, so the names are
\* pairwise different for every frame count; each name sorts after the name
\* before it as long as i is below 10000.
C10_NamesIncreaseBelowTenThousand ==
    frame >= 1 =>
        /\ Len(filename) >= PadWidth
        /\ Len(filename) > PadWidth => filename[1] # 0
        /\ ParseInt(filename) = frame - 1
        /\ saved_frame = frame - 1
        /\ (frame >= 2 /\ frame - 1 < 10 ^ PadWidth)
              => StrLess(prev_filename, filename)

\* Frame 9999 has been saved after frame 9998.
C10_Witness ==
    /\ frame = 10 ^ PadWidth
    /\ filename = <<9, 9, 9, 9>>
    /\ prev_filename = <<9, 9, 9, 8>>
    /\ saved_frame = 9999

\* A run that returned True and met no file-system failure.
Successful(r) == r.result = "True" /\ ~r.fault

LastRun == hist[Len(hist)]

\* C5: a "latest" GIF that a reader can see complete stays complete at every
\* step of every later write for its category: it is never seen missing or
\* half written.
C5_LatestNeverMissingOrPartial ==
    [][\A c \in Categories :
          latest_gif[c].state = "complete" => latest_gif'[c].state = "complete"]_vars

\* C6: when convert_raw_to_frames has decoded zero frames it returns a soft
\* failure (None, or a gif_path the caller's "if not gif_path" rejects), has
\* written neither the animated GIF nor the latest copy, and raises nothing.
C6_EmptyWriteIsSoftFailure ==
    (pc = "unpack" /\ decoded /\ actual_frames = 0) =>
        /\ ret.kind = "None" \/ ~Truthy(ret.gif_path)
        /\ "created_gif" \notin out
        /\ "updated_latest" \notin out
        /\ exc = ""

\* C7: a run whose raw stream held zero frames produces no completion report
\* and lets no exception escape run_full_simulation.
C7_ZeroFramesSkipsReport ==
    (decoded /\ actual_frames = 0) => ("report" \notin out /\ result # "raised")

\* The run before the one that ended last.
RunBefore == hist[Len(hist) - 1]

\* C8: when the two runs that ended last were both successful and of the same
\* category, the category's latest GIF holds exactly the frames of the second
\* one, and the frame directory and the timestamped GIF of both runs are on
\* disk (that their content is the content each run gave them is C9).
C8_LatestIsSecondRun ==
    (pc = "idle" /\ Len(hist) >= 2 /\ Successful(LastRun) /\ Successful(RunBefore)
                 /\ RunBefore.name = LastRun.name) =>
        /\ latest_gif[LastRun.name].state = "complete"
        /\ latest_gif[LastRun.name].frames = LastRun.images
        /\ latest_gif[LastRun.name] = GifAt(gif_files, LastRun.name, LastRun.ts)
        /\ <<RunBefore.name, RunBefore.ts>> \in frame_dirs
        /\ <<LastRun.name, LastRun.ts>> \in frame_dirs
        /\ DOMAIN RunBefore.files \subseteq
              DOMAIN DirFiles(frame_files, RunBefore.name, RunBefore.ts)
        /\ DOMAIN LastRun.files \subseteq
              DOMAIN DirFiles(frame_files, LastRun.name, LastRun.ts)
        /\ GifAt(gif_files, RunBefore.name, RunBefore.ts).state = "complete"
        /\ GifAt(gif_files, LastRun.name, LastRun.ts).state = "complete"

\* Two successful runs of one category with different frames have ended.
C8_Witness ==
    /\ pc = "idle"
    /\ Len(hist) = 2
    /\ Successful(hist[1])
    /\ Successful(hist[2])
    /\ hist[1].name = hist[2].name
    /\ hist[1].ts # hist[2].ts
    /\ hist[1].images # hist[2].images
    /\ latest_gif[hist[2].name].frames = hist[2].images

\* No file operation has failed so far, in this run or an earlier one.
NoFaultSoFar == ~io_fault /\ \A k \in 1..Len(hist) : ~hist[k].fault

\* C9: the frame images and the timestamped GIF of every successful run that
\* has ended are on disk exactly as that run left them: no later run has
\* removed, rewritten or added one (stated for the behaviours in which no
\* file operation fails).
C9_HistoryIsRetained ==
    NoFaultSoFar =>
        \A k \in 1..Len(hist) :
            Successful(hist[k]) =>
                /\ DirFiles(frame_files, hist[k].name, hist[k].ts) = hist[k].files
                /\ GifAt(gif_files, hist[k].name, hist[k].ts) = hist[k].gif

\* C11: once a non-empty frame sequence has been written, there is exactly one
\* timestamped GIF; it holds the input frames, each once and in input order
\* (frame i of the GIF is slice i of the stream), with 50 ms per frame and
\* loop count 0 (forever).
C11_GifHoldsEveryFrameInOrder ==
    (LoopDone /\ decoded /\ Len(images) >= 1) =>
        LET g == GifAt(gif_files, output_name, timestamp)
        IN  /\ DOMAIN gif_files = {<<output_name, timestamp>>}
            /\ g.state = "complete"
            /\ Len(g.frames) = Len(data) \div (H_DISPLAY * V_DISPLAY * 3)
            /\ \A i \in 1..Len(g.frames) :
                  ToBytes(g.frames[i]) =
                      SubSeq(data, (i - 1) * (H_DISPLAY * V_DISPLAY * 3) + 1,
                             i * (H_DISPLAY * V_DISPLAY * 3))
            /\ g.duration = 50
            /\ g.loop = 0

\* A GIF of three different frames has been written.
C11_Witness ==
    /\ pc = "unpack"
    /\ Len(images) = 3
    /\ GifAt(gif_files, output_name, timestamp).state = "complete"
    /\ Len(GifAt(gif_files, output_name, timestamp).frames) = 3
    /\ images[1] # images[2]
    /\ images[2] # images[3]

\* C12: a run in which a file operation failed (a frame, the GIF, or the
\* removal or the copy of the latest GIF) ends with the exception escaping
\* run_full_simulation, never with True or False; and the latest GIF of its
\* category is then not half written, and is still complete when an earlier
\* successful run of the category had left it complete.
C12_IoFailureAbortsRun ==
    (pc = "idle" /\ Len(hist) >= 1 /\ LastRun.fault) =>
        /\ LastRun.result = "raised"
        /\ latest_gif[LastRun.name].state # "partial"
        /\ (\E k \in 1..(Len(hist) - 1) :
                Successful(hist[k]) /\ hist[k].name = LastRun.name)
              => latest_gif[LastRun.name].state = "complete"

\* Sample position k (from 0) of the raster lies in the visible area.
VisibleAt(k) ==
    LET pos == k % (H_TOTAL * V_TOTAL)
    IN  pos % H_TOTAL < H_DISPLAY /\ pos \div H_TOTAL < V_DISPLAY

\* The byte of a 2-bit colour value in the decoder's input format.
ByteOf(v) == CASE v = 0 -> 0 [] v = 1 -> 85 [] v = 2 -> 170 [] v = 3 -> 255

\* The decoder's input for the first k samples: R, G, B of every visible
\* sample in raster order, nothing else.
RECURSIVE VisibleBytes(_)
VisibleBytes(k) ==
    IF k = 0 THEN <<>>
    ELSE VisibleBytes(k - 1) \o
         (IF VisibleAt(k - 1)
          THEN <<ByteOf(SampleAt(k - 1)[1]), ByteOf(SampleAt(k - 1)[2]),
                 ByteOf(SampleAt(k - 1)[3])>>
          ELSE <<>>)

\* C13: what each harness has emitted after any number of samples is exactly
\* the R, G, B bytes of the visible samples so far in row-major order (the
\* C++ testbench holds those of the current raster frame in its buffer, the
\* capture object in its line and frame buffers), so after k whole raster
\* frames k * H_DISPLAY * V_DISPLAY * 3 bytes have been emitted and none of
\* them is a blanking sample.
C13_HarnessStreamIsVisibleBytes ==
    /\ pixel_file = VisibleBytes(clocks)
    /\ outfile \o frame_buffer = VisibleBytes(clocks)
    /\ Len(outfile) = cpp_frame_count * H_DISPLAY * V_DISPLAY * 3
    /\ (tb_h_count = 0 /\ tb_v_count = 0) =>
          /\ clocks = tb_frame_count * H_TOTAL * V_TOTAL
          /\ Len(pixel_file) = tb_frame_count * H_DISPLAY * V_DISPLAY * 3
    /\ \A i \in 1..frame_count :
          ToBytes(StreamedFrames[i]) =
              SubSeq(VisibleBytes(clocks), (i - 1) * H_DISPLAY * V_DISPLAY * 3 + 1,
                     i * H_DISPLAY * V_DISPLAY * 3)
    /\ DOMAIN cocotb_files = {FrameFileName(i - 1) : i \in 1..cocotb_frame_num}
    /\ \A i \in 1..cocotb_frame_num :
          ToBytes(cocotb_files[FrameFileName(i - 1)].img) =
              SubSeq(VisibleBytes(clocks), (i - 1) * H_DISPLAY * V_DISPLAY * 3 + 1,
                     i * H_DISPLAY * V_DISPLAY * 3)
    /\ Len(cocotb_pixels) + cocotb_frame_num * H_DISPLAY * V_DISPLAY * 3
          = Len(VisibleBytes(clocks))

\* Two raster frames of more than one row and column have been sampled, with
\* blanking samples between them.
C13_Witness ==
    /\ H_DISPLAY > 1
    /\ V_DISPLAY > 1
    /\ tb_frame_count = 2
    /\ cpp_frame_count = 2
    /\ tb_h_count = 0
    /\ tb_v_count = 0
    /\ clocks > 2 * H_DISPLAY * V_DISPLAY
    /\ Len(pixel_file) = 2 * H_DISPLAY * V_DISPLAY * 3
    /\ Len(outfile) = 2 * H_DISPLAY * V_DISPLAY * 3
    /\ cocotb_frame_num = 2

\* The 2-bit values the design has driven in the visible area so far.
DrivenValues ==
    {SampleAt(k)[c] : k \in {j \in 0..(clocks - 1) : VisibleAt(j)}, c \in 1..3}

\* The bytes the harnesses hold for the raster frame being sampled.
CaptureBuffer == pixels \o current_line

\* C14: the 2-bit to 8-bit expansion is the map 0 -> 0, 1 -> 85, 2 -> 170,
\* 3 -> 255, strictly monotonic and injective, the implementations of
\* simulate_vga.py, test_vga_sphere.py and the C++ testbench agree on every
\* value 0..3, and so the bytes the three harnesses hold for the samples
\* driven so far are the same.
C14_ExpansionTableAndAgreement ==
    /\ \A v \in 0..3 :
          /\ extend_2bit_to_8bit(v) = <<0, 85, 170, 255>>[v + 1]
          /\ cocotb_extend_2bit_to_8bit(v) = extend_2bit_to_8bit(v)
          /\ extend_2bit(v) = extend_2bit_to_8bit(v)
    /\ \A v \in 0..3, w \in 0..3 :
          /\ v < w => extend_2bit_to_8bit(v) < extend_2bit_to_8bit(w)
          /\ extend_2bit_to_8bit(v) = extend_2bit_to_8bit(w) => v = w
    /\ CaptureBuffer = cocotb_pixels
    /\ CaptureBuffer = frame_buffer
    /\ \A j \in 1..Len(frame_buffer) :
          frame_buffer[j] \in {0, 85, 170, 255}

\* All four 2-bit values have been driven and sampled, and the harnesses
\* hold bytes of the current frame.
C14_Witness ==
    /\ DrivenValues = 0..3
    /\ Len(cocotb_pixels) >= 6
    /\ \E j \in 1..Len(cocotb_pixels) : cocotb_pixels[j] = 255
    /\ \E j \in 1..Len(cocotb_pixels) : cocotb_pixels[j] = 85

\* A configuration the preconditions exclude: a step budget, a distance limit
\* or a radius that is not positive, or an empty image.
InvalidConfiguration ==
    \/ max_steps <= 0
    \/ max_dist <= 0
    \/ SPHERE_RADIUS <= 0
    \/ H_DISPLAY <= 0
    \/ V_DISPLAY <= 0

\* C15: a call with an invalid configuration is rejected before any marching:
\* it evaluates the distance function not once and returns no result.
C15_InvalidConfigurationRejected ==
    (march_pc # "idle" /\ InvalidConfiguration) =>
        /\ sdf_evals = 0
        /\ march_pc # "returned"

\* Sphere tracing from parameter tt with n steps of the budget left: the
\* hit test, then the miss test, then the step by the distance.
RECURSIVE SphereTrace(_, _, _, _, _)
SphereTrace(o, d, tt, n, md) ==
    LET pt == PointAt(o, d, tt)
        dd == sphere_sdf(pt, <<0, 0, 0>>, SPHERE_RADIUS)
    IN  IF n <= 0 THEN [hit |-> FALSE, t |-> tt, used |-> 0]
        ELSE IF dd < HIT_EPSILON THEN [hit |-> TRUE, t |-> tt, used |-> 1]
        ELSE IF tt > md THEN [hit |-> FALSE, t |-> tt, used |-> 1]
        ELSE LET r == SphereTrace(o, d, tt + dd, n - 1, md)
             IN  [r EXCEPT !.used = r.used + 1]

\* C16: ray_march is sphere tracing from t = 0 with a budget of max_steps:
\* it never makes more than max_steps passes, one distance evaluation each,
\* what is left of a call in progress is sphere tracing from its t with the
\* rest of the budget, and the call returns the outcome, the t and the point
\* of sphere tracing, after as many passes.
C16_RayMarchIsSphereTracing ==
    LET whole == SphereTrace(ray_origin, ray_dir, 0, max_steps, max_dist)
        rest == SphereTrace(ray_origin, ray_dir, march_t,
                            max_steps - march_steps, max_dist)
    IN  /\ march_pc # "idle" =>
              /\ march_steps <= IF max_steps > 0 THEN max_steps ELSE 0
              /\ sdf_evals = march_steps
        /\ march_pc = "loop" =>
              /\ rest.hit = whole.hit
              /\ rest.t = whole.t
              /\ march_steps + rest.used = whole.used
        /\ march_pc = "returned" =>
              /\ march_ret.hit = whole.hit
              /\ march_ret.t = whole.t
              /\ march_ret.p = PointAt(ray_origin, ray_dir, whole.t)
              /\ march_steps = whole.used

\* A call has returned a hit after three passes or more, another kind of
\* call a miss by the distance limit, a third a miss by the step budget.
C16_Witness ==
    /\ march_pc = "returned"
    /\ march_ret.hit
    /\ march_steps >= 3
    /\ march_ret.t > 0
    /\ max_dist > 0

\* The origin of the ray is farther than max_dist from the sphere.
OriginBeyondLimit ==
    sphere_sdf(ray_origin, <<0, 0, 0>>, SPHERE_RADIUS) > max_dist

\* The ray does not point towards the centre of the sphere.
PointsAway == dot(ray_origin, ray_dir) >= 0

\* C17 as claimed: a call with a step budget of one or more and a positive
\* distance limit, for a ray whose origin is farther than max_dist from the
\* sphere and that points away from it, returns a miss, after max_steps
\* passes at most.
C17_FarRayAlwaysMisses ==
    (march_pc = "returned" /\ max_steps >= 1 /\ max_dist > 0
         /\ OriginBeyondLimit /\ PointsAway) =>
        /\ ~march_ret.hit
        /\ march_steps <= max_steps

\* C17: such a call returns a miss, after two passes at most, when the
\* origin is also no nearer to the sphere than the hit threshold; and while
\* such a call is in progress it has made one pass at most.
C17_FarRayOutsideThresholdMisses ==
    (march_pc # "idle" /\ max_steps >= 1 /\ OriginBeyondLimit /\ PointsAway
         /\ sphere_sdf(ray_origin, <<0, 0, 0>>, SPHERE_RADIUS) >= HIT_EPSILON) =>
        /\ march_pc = "loop" => march_steps <= 1
        /\ march_pc = "returned" =>
              /\ ~march_ret.hit
              /\ march_steps <= max_steps
              /\ march_steps <= 2

\* A ray from beyond a positive limit that points away has been marched
\* with a budget of three steps or more and missed in the second pass.
C17_Witness ==
    /\ march_pc = "returned"
    /\ max_steps >= 3
    /\ max_dist > 0
    /\ OriginBeyondLimit
    /\ PointsAway
    /\ sphere_sdf(ray_origin, <<0, 0, 0>>, SPHERE_RADIUS) >= HIT_EPSILON
    /\ ~march_ret.hit
    /\ march_steps = 2
    /\ march_ret.t > max_dist

\* C19: when k passes of the loop for N frames are over, render_frame has
\* been called k times, k is N at most, the frame rendered last has index
\* k - 1 and was rendered at the angle (k - 1) * (2 pi / N), whatever the
\* angle before it; so the indices 0..N-1 are rendered once each in
\* increasing order, and for N = 1 the one angle is 0.
C19_AngleFromAbsoluteIndex ==
    /\ render_calls = frame
    /\ frame <= (IF args_frames > 0 THEN args_frames ELSE 0)
    /\ frame > 0 =>
          /\ saved_frame = frame - 1
          /\ filename = FrameFileName(frame - 1)
          /\ angle = saved_frame * (TWO_PI \div args_frames)
          /\ angle < TWO_PI
    /\ (args_frames = 1 /\ frame > 0) => angle = 0

\* The last of five or more frames has been rendered, past three quarters
\* of the turn.
C19_Witness ==
    /\ args_frames >= 5
    /\ frame = args_frames
    /\ render_calls = args_frames
    /\ 4 * angle > 3 * TWO_PI

\* C26: while a run that decoded zero frames is under way, no step changes
\* the latest artifact of any category.
C26_ZeroFrameRunKeepsLatest ==
    [][(pc # "idle" /\ decoded /\ actual_frames = 0)
          => latest_gif' = latest_gif]_vars

\* C27: a run that ends in the build stage or in the simulation stage ends
\* by returning False, and the step that ends it changes no frame file, no
\* animated artifact, no latest artifact and no viewer page.
C27_StageFailureReturnsFalse ==
    [][(pc \in {"build", "sim"} /\ pc' = "idle")
          => (result' = "False" /\ exc' = "" /\ UNCHANGED diskVars)]_vars

\* C28: a run in which convert_raw_to_frames returned None has returned
\* False, raised nothing and printed no completion report.
C28_ConvertCannotRunReturnsFalse ==
    (pc = "idle" /\ Len(hist) >= 1 /\ ret.kind = "None") =>
        /\ result = "False"
        /\ exc = ""
        /\ "report" \notin out

\* The timestamped artifacts of category c: its frame directories, its
\* frame files and its animated artifacts.
ArtifactsOf(c, fd, ff, gf) ==
    <<{d \in fd : d[1] = c},
      [q \in {q \in DOMAIN ff : q[1] = c} |-> ff[q]],
      [q \in {q \in DOMAIN gf : q[1] = c} |-> gf[q]]>>

\* C29: no step of a run changes the latest artifact or a timestamped
\* artifact of a category other than the run's own.
C29_OtherCategoriesUntouched ==
    [][\A c \in Categories \ {output_name'} :
          /\ latest_gif'[c] = latest_gif[c]
          /\ ArtifactsOf(c, frame_dirs', frame_files', gif_files')
                = ArtifactsOf(c, frame_dirs, frame_files, gif_files)]_vars

\* Two runs of different categories have succeeded at the same second, and
\* each category has its own latest artifact.
C29_Witness ==
    /\ pc = "idle"
    /\ Len(hist) = 2
    /\ Successful(hist[1])
    /\ Successful(hist[2])
    /\ hist[1].name # hist[2].name
    /\ hist[1].ts = hist[2].ts
    /\ latest_gif[hist[1].name] = hist[1].gif
    /\ latest_gif[hist[2].name] = hist[2].gif
    /\ hist[1].gif.state = "complete"
    /\ hist[2].gif.state = "complete"

\* The monitor thread has been started.
ThreadStarted == mon_pc # "none"

\* C30: once the monitor thread is started, run_simulation is left only
\* with the stop event set, and is left by a return only when the thread has
\* ended.
C30_StopEventSetOnEveryExit ==
    (rs_pc = "exited" /\ ThreadStarted) =>
        /\ stop_event
        /\ rs_result \in {"None", "elapsed"} => mon_pc = "done"

\* The colour of the k-th pixel (from 1) of a list of channel values.
ColourAt(px, k) == <<px[3 * k - 2], px[3 * k - 1], px[3 * k]>>

\* The place (from 1) of pixel (x, y) in the list of a frame w wide.
PixelIndex(x, y, w) == y * w + x + 1

\* C21: in a 64 by 48 frame at angle 0, once row 24 is rendered, the centre
\* pixel (32, 24) is a hit and its colour differs from the colour of every
\* pixel of row 24 whose ray missed.
C21_CentrePixelIsShadedHit ==
    (WIDTH = 64 /\ HEIGHT = 48 /\ angle = 0
        /\ Len(rf_log) >= PixelIndex(63, 24, 64)) =>
        /\ rf_log[PixelIndex(32, 24, 64)].hit
        /\ \A x \in 0..63 :
              ~rf_log[PixelIndex(x, 24, 64)].hit =>
                  ColourAt(rf_pixels, PixelIndex(x, 24, 64))
                      # ColourAt(rf_pixels, PixelIndex(32, 24, 64))

\* The 64 by 48 frame at angle 0 has been returned; its centre pixel is a
\* hit and row 24 has background pixels.
C21_Witness ==
    /\ WIDTH = 64 /\ HEIGHT = 48 /\ angle = 0
    /\ rf_pc = "returned"
    /\ rf_log[PixelIndex(32, 24, 64)].hit
    /\ \E x \in 0..63 : ~rf_log[PixelIndex(x, 24, 64)].hit

\* C22: every value of the list render_frame returns is an integer from 0
\* to 255, for pixels whose ray hit and pixels whose ray missed.
C22_ChannelsAreBytes ==
    rf_pc = "returned" =>
        \A i \in 1..Len(rf_pixels) : rf_pixels[i] \in 0..255

\* A returned frame with a hit pixel, a miss pixel and a channel at 255.
C22_Witness ==
    /\ rf_pc = "returned"
    /\ \E k \in 1..Len(rf_log) : rf_log[k].hit
    /\ \E k \in 1..Len(rf_log) : ~rf_log[k].hit
    /\ \E i \in 1..Len(rf_pixels) : rf_pixels[i] = 255

\* The miss pixels of row y of a logged frame all have colour c.
RowMissesHave(px, log, y, c) ==
    \A j \in 1..Len(log) :
        (~log[j].hit /\ log[j].y = y) => ColourAt(px, j) = c

\* C23: a pixel of the returned frame whose ray missed has the colour of
\* every other miss pixel of its row, in this frame and in the frames
\* rendered before it at other camera angles.
C23_MissColourDependsOnRowOnly ==
    rf_pc = "returned" =>
        \A k \in 1..Len(rf_log) :
            ~rf_log[k].hit =>
                /\ RowMissesHave(rf_pixels, rf_log, rf_log[k].y,
                                 ColourAt(rf_pixels, k))
                /\ \A f \in 1..Len(rf_frames) :
                      RowMissesHave(rf_frames[f].pixels, rf_frames[f].log,
                                    rf_log[k].y, ColourAt(rf_pixels, k))

\* A returned frame with two miss pixels in one row at different columns,
\* and an earlier frame at another angle with a miss pixel in that row.
C23_Witness ==
    /\ rf_pc = "returned"
    /\ \E k, j \in 1..Len(rf_log) :
          /\ k # j
          /\ ~rf_log[k].hit /\ ~rf_log[j].hit
          /\ rf_log[k].y = rf_log[j].y
          /\ \E f \in 1..Len(rf_frames) :
                /\ rf_frames[f].angle # angle
                /\ \E i \in 1..Len(rf_frames[f].log) :
                      /\ ~rf_frames[f].log[i].hit
                      /\ rf_frames[f].log[i].y = rf_log[k].y

\* C24: normalize never raises the division error; of a vector whose
\* length is below the threshold it returns [0, 0, 1]; what it returns is
\* always a vector of three numbers.
C24_NormalizeNeverDividesByZero ==
    norm_pc = "returned" =>
        /\ norm_ret # DivisionError
        /\ Len(norm_ret) = 3
        /\ \A i \in 1..3 : norm_ret[i] \in Int
        /\ Length(norm_v) * ThresholdDen < Scale => norm_ret = <<0, 0, Scale>>

\* normalize has returned [0, 0, 1] for the zero vector, which is what the
\* right vector is computed from when forward is vertical.
C24_Witness ==
    /\ norm_pc = "returned"
    /\ norm_v = <<0, 0, 0>>
    /\ norm_ret = <<0, 0, Scale>>

\* C25: the list render_frame returns has WIDTH * HEIGHT * 3 values, and
\* the three values at offsets 3 * (y * WIDTH + x) .. + 2 are the ones
\* appended for pixel (x, y), its colour.
C25_FrameBufferIsRowMajor ==
    rf_pc = "returned" =>
        /\ Len(rf_pixels) = WIDTH * HEIGHT * 3
        /\ Len(rf_log) = WIDTH * HEIGHT
        /\ \A y \in 0..(HEIGHT - 1), x \in 0..(WIDTH - 1) :
              /\ rf_log[PixelIndex(x, y, WIDTH)].x = x
              /\ rf_log[PixelIndex(x, y, WIDTH)].y = y
              /\ ColourAt(rf_pixels, PixelIndex(x, y, WIDTH))
                    = Pixel(angle, WIDTH, HEIGHT, x, y).rgb

\* A frame of more than one row and more than one column has been returned.
C25_Witness ==
    /\ rf_pc = "returned"
    /\ WIDTH > 1 /\ HEIGHT > 1
    /\ Len(rf_pixels) = WIDTH * HEIGHT * 3

====
